---- MODULE Spec2Model ----
(***************************************************************************)
(* Lab Assistant: the laboratory calculations of calculations.py and the   *)
(* Protocol Designer session of app.py.                                    *)
(*                                                                         *)
(* Numbers.  The program computes with floats.  Here a number is an exact  *)
(* rational written (n / d) * 10^e, kept in a canonical form (d > 0        *)
(* coprime to n and to 10, n not a multiple of 10, zero as 0/1 * 10^0), so *)
(* that two numbers are equal exactly when their records are equal.  The   *)
(* arithmetic below is the exact arithmetic of which the float operation   *)
(* is the nearest-double approximation; the only roundings modelled are    *)
(* the ones the code asks for (round(x, 4), the ".4g" format).  Where the  *)
(* grams of calculate_mass are fed into calculate_molarity the roundings   *)
(* of the float operations themselves decide the result, and the two       *)
(* formulas are computed there in IEEE 754 binary64, bit for bit.          *)
(***************************************************************************)
EXTENDS Integers, Sequences, FiniteSets, TLC

Abs(x) == IF x < 0 THEN -x ELSE x

RECURSIVE Gcd(_, _)
Gcd(a, b) == IF b = 0 THEN a ELSE Gcd(b, a % b)

RECURSIVE Pow10(_)
Pow10(k) == IF k <= 0 THEN 1 ELSE 10 * Pow10(k - 1)

Zero == [n |-> 0, d |-> 1, e |-> 0]

\* moves every factor 2 and 5 of the denominator into the power of ten
RECURSIVE StripDen(_, _, _)
StripDen(n, d, e) ==
    IF d % 2 = 0 THEN StripDen(n * 5, d \div 2, e - 1)
    ELSE IF d % 5 = 0 THEN StripDen(n * 2, d \div 5, e - 1)
    ELSE [n |-> n, d |-> d, e |-> e]

\* moves every factor 10 of the numerator into the power of ten
RECURSIVE StripNum(_, _, _)
StripNum(n, d, e) ==
    IF n % 10 = 0 THEN StripNum(n \div 10, d, e + 1)
    ELSE [n |-> n, d |-> d, e |-> e]

\* the canonical form of (n / d) * 10^e, for d > 0
Q(n, d, e) ==
    IF n = 0 THEN Zero
    ELSE LET g == Gcd(Abs(n), d)
             s == StripDen(n \div g, d \div g, e)
         IN  StripNum(s.n, s.d, s.e)

\* an integer, and a decimal literal n * 10^e
Int2Num(i) == Q(i, 1, 0)
Dec(n, e) == Q(n, 1, e)

Sign(x) == IF x.n > 0 THEN 1 ELSE IF x.n < 0 THEN -1 ELSE 0

RMul(x, y) == Q(x.n * y.n, x.d * y.d, x.e + y.e)

\* x / y for y # 0 (the callers test for zero first, as Python raises there)
RDiv(x, y) == Q(x.n * y.d * Sign(y), x.d * Abs(y.n), x.e - y.e)

RNeg(x) == [n |-> -x.n, d |-> x.d, e |-> x.e]

MinOf(a, b) == IF a < b THEN a ELSE b

RAdd(x, y) ==
    LET m == MinOf(x.e, y.e)
    IN  IF x.n = 0 THEN y
        ELSE IF y.n = 0 THEN x
        ELSE Q(x.n * Pow10(x.e - m) * y.d + y.n * Pow10(y.e - m) * x.d, x.d * y.d, m)

RSub(x, y) == RAdd(x, RNeg(y))

\* a * 10^k > b, for integers a, b > 0 and k >= 0, without forming a * 10^k
\* when it is certain to exceed b
RECURSIVE ShiftedGreater(_, _, _)
ShiftedGreater(a, k, b) ==
    IF k = 0 THEN a > b
    ELSE IF a >= b \/ a > 214748364 THEN TRUE
    ELSE ShiftedGreater(a * 10, k - 1, b)

\* x > y for x, y > 0 with x # y
PosGreater(x, y) ==
    LET a == x.n * y.d
        b == y.n * x.d
    IN  IF x.e >= y.e THEN ShiftedGreater(a, x.e - y.e, b)
        ELSE ~ShiftedGreater(b, y.e - x.e, a)

RGt(x, y) ==
    IF Sign(x) # Sign(y) THEN Sign(x) > Sign(y)
    ELSE IF Sign(x) = 0 THEN FALSE
    ELSE IF Sign(x) > 0 THEN x # y /\ PosGreater(x, y)
    ELSE x # y /\ PosGreater(RNeg(y), RNeg(x))

RGe(x, y) == x = y \/ RGt(x, y)
RLt(x, y) == RGt(y, x)
RLe(x, y) == RGe(y, x)
RAbs(x) == IF x.n < 0 THEN RNeg(x) ELSE x

\* x * 10^k
Shift(x, k) == IF x.n = 0 THEN x ELSE [x EXCEPT !.e = x.e + k]

\* the integers next to x: x = (fl + rem / den), 0 <= rem < den
IntParts(x) ==
    LET num == IF x.e >= 0 THEN x.n * Pow10(x.e) ELSE x.n
        den == IF x.e >= 0 THEN x.d ELSE x.d * Pow10(-x.e)
    IN  [fl |-> num \div den, rem |-> num % den, den |-> den]

\* Python's round(x, ndigits) on a float x.  Away from a tie the nearest
\* multiple of 10^-ndigits.  A product that is exactly halfway between two of
\* them is rounded either way (up when tieUp): the double that stands for it
\* lies on one side of the tie or the other (round(0.00005, 4) is 0.0001 and
\* round(0.00015, 4) is 0.0001), and a double that is the tie exactly goes
\* to the even neighbour.
round_down(x, ndigits, tieUp) == Q(IntParts(Shift(x, ndigits)).fl, 1, -ndigits)

round_coarse(x, ndigits, tieUp) ==
    LET p == IntParts(Shift(x, ndigits - 1))
    IN  Q(IF 2 * p.rem >= p.den THEN p.fl + 1 ELSE p.fl, 1, 1 - ndigits)

round(x, ndigits, tieUp) ==
    LET p == IntParts(Shift(x, ndigits))
        k == IF 2 * p.rem > p.den THEN p.fl + 1
             ELSE IF 2 * p.rem < p.den THEN p.fl
             ELSE IF tieUp THEN p.fl + 1 ELSE p.fl
    IN  IF x.d = 1 /\ x.e >= -ndigits THEN x    \* nothing to round
        ELSE IF x.e + ndigits < -9 THEN Zero     \* |x| * 10^ndigits < 1/2
        ELSE Q(k, 1, -ndigits)

\* x * 10^ndigits is exactly halfway between two integers
IsTie(x, ndigits) ==
    /\ ~(x.d = 1 /\ x.e >= -ndigits)
    /\ x.e + ndigits >= -9
    /\ LET p == IntParts(Shift(x, ndigits)) IN 2 * p.rem = p.den

\* the number of decimal digits of the integer k > 0
RECURSIVE NDigits(_)
NDigits(k) == IF k < 10 THEN 1 ELSE 1 + NDigits(k \div 10)

\* for x > 0, the p with 10^p <= x < 10^(p+1)
Exp10(x) ==
    LET p == x.e + NDigits(x.n) - NDigits(x.d)
    IN  IF RGe(x, Dec(1, p)) THEN p ELSE p - 1

\* x has 5 significant digits or more, the part after the 4th being a half
IsTie4g(x) == x.n # 0 /\ IsTie(Shift(RAbs(x), 3 - Exp10(RAbs(x))), 0)

\* float(f"{x:.4g}"): x rounded to 4 significant digits (a tie as in round)
Format4g(x, tieUp) ==
    IF x.n = 0 THEN Zero
    ELSE LET p == Exp10(RAbs(x))
             m == round(Shift(RAbs(x), 3 - p), 0, tieUp)
         IN  IF x.n < 0 THEN RNeg(Shift(m, p - 3)) ELSE Shift(m, p - 3)

(***************************************************************************)
(* State.                                                                  *)
(*   heap, steps, new_total_volume, old_total_volume, result, raised,      *)
(*   before, pc: one call of scale_recipe seen from its caller.  Lists and *)
(*   dicts are objects of a heap (an address is an index of heap), so that *)
(*   two names for one object are told apart from two equal objects.       *)
(*   protocol_steps, protocol_total_volume, protocol_volume_unit,          *)
(*   prot_name: the Protocol Designer's entries of st.session_state.       *)
(*   call, ret: one call of a formula entry point and what it returned.    *)
(***************************************************************************)
VARIABLES heap, steps, new_total_volume, old_total_volume, result, raised,
          before, pc,
          protocol_steps, protocol_total_volume, protocol_volume_unit,
          prot_name, prot_vol, saved_recipes, call, ret

vars == <<heap, steps, new_total_volume, old_total_volume, result, raised,
          before, pc,
          protocol_steps, protocol_total_volume, protocol_volume_unit,
          prot_name, prot_vol, saved_recipes, call, ret>>

scaleVars == <<heap, steps, new_total_volume, old_total_volume, result,
               raised, before, pc>>
sessionVars == <<protocol_steps, protocol_total_volume, protocol_volume_unit,
                 prot_name, prot_vol, saved_recipes>>
calcVars == <<call, ret>>

\* ---- bounds of the model -------------------------------------------------
\* the longest protocol built step by step or handed to scale_recipe
MaxSteps == 2

\* ---- recipe scaling (calculations.py) -------------------------------------

\* digits kept by scale_recipe's round(..., 4)
RoundDigits == 4

\* the scaled copy of a list of step records: every amount times
\* new / old, rounded; ties[i] says which way step i goes at an exact tie
ScaledSteps_rechoose_unit(S, new, old, ties) ==
    LET scale_factor == RDiv(new, old)
        amt(i) == round(RMul(S[i].amount, scale_factor), RoundDigits, ties[i])
        up(i) == S[i].unit = "uL" /\ RGe(amt(i), Int2Num(1000))
    IN  [i \in 1..Len(S) |->
            [S[i] EXCEPT !.amount = IF up(i) THEN Shift(amt(i), -3) ELSE amt(i),
                         !.unit = IF up(i) THEN "mL" ELSE @]]

ScaledSteps(S, new, old, ties) ==
    LET scale_factor == RDiv(new, old)
    IN  [i \in 1..Len(S) |->
            [S[i] EXCEPT !.amount =
                round(RMul(S[i].amount, scale_factor), RoundDigits, ties[i])]]

\* the ways the roundings of one call can fall: step i is free only at a tie
ScaleTies(S, new, old) ==
    {ties \in [1..Len(S) -> BOOLEAN] :
        \A i \in 1..Len(S) :
            ties[i] => /\ old # Zero
                       /\ IsTie(RMul(S[i].amount, RDiv(new, old)), RoundDigits)}

\* heap objects
ListObj(items) == [kind |-> "list", items |-> items]
DictObj(fields) == [kind |-> "dict", fields |-> fields]

\* the value of the list at address a: the sequence of its dicts' fields
ListValue(h, a) == [i \in 1..Len(h[a].items) |-> h[h[a].items[i]].fields]

\* scale_recipe(steps, new_total_volume, old_total_volume) on heap h, steps
\* being the address of a list of dicts: the heap after the call, the address
\* returned and the exception raised
scale_recipe_unguarded(h, stepsAddr, new, old, ties) ==
    IF old = Zero
    THEN [heap |-> h, ret |-> 0, raised |-> "ZeroDivisionError"]
    ELSE LET S == ListValue(h, stepsAddr)
             scaled == ScaledSteps(S, new, old, ties)
             listAddr == Len(h) + 1
             new_steps == [i \in 1..Len(S) |-> DictObj(scaled[i])]
         IN  [heap |-> h \o <<ListObj([i \in 1..Len(S) |-> listAddr + i])>>
                        \o new_steps,
              ret |-> listAddr, raised |-> "none"]

scale_recipe_in_place(h, stepsAddr, new, old, ties) ==
    IF old = Zero
    THEN [heap |-> h, ret |-> stepsAddr, raised |-> "none"]
    ELSE LET S == ListValue(h, stepsAddr)
             scaled == ScaledSteps(S, new, old, ties)
             listAddr == Len(h) + 1
             at(a) == CHOOSE i \in 1..Len(S) : h[stepsAddr].items[i] = a
         IN  [heap |-> [a \in 1..Len(h) |->
                          IF \E i \in 1..Len(S) : h[stepsAddr].items[i] = a
                          THEN DictObj(scaled[at(a)]) ELSE h[a]]
                        \o <<ListObj(h[stepsAddr].items)>>,
              ret |-> listAddr, raised |-> "none"]

scale_recipe(h, stepsAddr, new, old, ties) ==
    IF old = Zero
    THEN [heap |-> h, ret |-> stepsAddr, raised |-> "none"]
    ELSE LET S == ListValue(h, stepsAddr)
             scaled == ScaledSteps(S, new, old, ties)
             listAddr == Len(h) + 1
             new_steps == [i \in 1..Len(S) |-> DictObj(scaled[i])]
         IN  [heap |-> h \o <<ListObj([i \in 1..Len(S) |-> listAddr + i])>>
                        \o new_steps,
              ret |-> listAddr, raised |-> "none"]

\* ---- inputs of the scaling harness ----------------------------------------
\* amounts: 0, 0.00001, 0.0007, 1, 2, 3, 10, 300
AmountValues == {Zero, Dec(1, -5), Dec(7, -4), Int2Num(1), Int2Num(2),
                 Int2Num(3), Int2Num(10), Int2Num(300)}
\* volumes: -1, 0, 1, 3, 100, 200
VolumeValues == {Int2Num(-1), Zero, Int2Num(1), Int2Num(3), Int2Num(100),
                 Int2Num(200)}
\* reagent, unit and notes of a step, as the Add Step form gives them
StepKinds == {[reagent |-> "Sodium Chloride (NaCl)", unit |-> "g", notes |-> ""],
              [reagent |-> "Tris-HCl (1M, pH 8.0)", unit |-> "uL",
               notes |-> "(From 10.0 M stock -> 1.0 mM)"]}

Step(i, kind, amount) ==
    [step_number |-> i, reagent |-> kind.reagent, amount |-> amount,
     unit |-> kind.unit, notes |-> kind.notes]

\* the protocols of n steps, numbered from 1
ProtocolsOfLen(n) ==
    {[i \in 1..n |-> Step(i, f[i][1], f[i][2])] :
        f \in [1..n -> StepKinds \X AmountValues]}

\* a heap holding just the list S: the list at address 1, its dicts after it
HeapOf(S) == <<ListObj([i \in 1..Len(S) |-> i + 1])>>
             \o [i \in 1..Len(S) |-> DictObj(S[i])]

NoFile == [kind |-> "missing"]
IdleSession ==
    /\ protocol_steps = <<>>
    /\ protocol_total_volume = Int2Num(100)
    /\ protocol_volume_unit = "mL"
    /\ prot_name = [set |-> FALSE]
    /\ prot_vol = Int2Num(100)
    /\ saved_recipes = NoFile
NoCall == [fn |-> "none"]
IdleCalc == call = NoCall /\ ret = NoCall
IdleScale ==
    /\ heap = <<>> /\ steps = 0 /\ result = 0 /\ raised = "none"
    /\ new_total_volume = Zero /\ old_total_volume = Zero
    /\ before = <<>> /\ pc = "idle"

InitScale ==
    /\ \E n \in 0..MaxSteps : \E S \in ProtocolsOfLen(n) : heap = HeapOf(S)
    /\ steps = 1
    /\ new_total_volume \in VolumeValues
    /\ old_total_volume \in VolumeValues
    /\ result = 0
    /\ raised = "none"
    /\ before = heap
    /\ pc = "start"
    /\ IdleSession
    /\ IdleCalc

\* the caller calls scale_recipe(steps, new_total_volume, old_total_volume)
CallScaleRecipe ==
    /\ pc = "start"
    /\ \E ties \in ScaleTies(ListValue(heap, steps), new_total_volume,
                              old_total_volume) :
         LET r == scale_recipe(heap, steps, new_total_volume,
                               old_total_volume, ties)
         IN  /\ heap' = r.heap
             /\ result' = r.ret
             /\ raised' = r.raised
    /\ before' = heap
    /\ pc' = "returned"
    /\ UNCHANGED <<steps, new_total_volume, old_total_volume>>
    /\ UNCHANGED sessionVars
    /\ UNCHANGED calcVars

\* the caller goes on with the list it got back, as the Protocol Designer does
\* with the session's list: it appends a step to it (Add Step) ...
AppendToResult ==
    /\ pc = "returned" /\ raised = "none"
    /\ \E kind \in StepKinds :
         LET n == Len(heap[result].items)
             step == Step(n + 1, kind, Int2Num(10))
         IN  heap' = [heap EXCEPT ![result].items = @ \o <<Len(heap) + 1>>]
                     \o <<DictObj(step)>>
    /\ pc' = "changed"
    /\ UNCHANGED <<steps, new_total_volume, old_total_volume, result, raised,
                   before>>
    /\ UNCHANGED sessionVars
    /\ UNCHANGED calcVars

\* ... or pops step i of it and renumbers the steps left, writing into them
DeleteFromResult ==
    /\ pc = "returned" /\ raised = "none"
    /\ \E i \in 1..Len(heap[result].items) :
         LET items == heap[result].items
             left == [j \in 1..(Len(items) - 1) |->
                         IF j < i THEN items[j] ELSE items[j + 1]]
             pos(a) == CHOOSE j \in 1..Len(left) : left[j] = a
         IN  heap' = [a \in 1..Len(heap) |->
                        IF a = result THEN ListObj(left)
                        ELSE IF \E j \in 1..Len(left) : left[j] = a
                        THEN [heap[a] EXCEPT !.fields.step_number = pos(a)]
                        ELSE heap[a]]
    /\ pc' = "changed"
    /\ UNCHANGED <<steps, new_total_volume, old_total_volume, result, raised,
                   before>>
    /\ UNCHANGED sessionVars
    /\ UNCHANGED calcVars

NextScale == CallScaleRecipe \/ AppendToResult \/ DeleteFromResult

SpecScale == InitScale /\ [][NextScale]_vars

\* ---- scaling there and back -------------------------------------------------
\* the caller scales the list it got back to the volume it came from:
\* scale_recipe(result, old_total_volume, new_total_volume), as a second
\* auto-scale of the Protocol Designer does
ScaleBackRecipe ==
    /\ pc = "returned" /\ raised = "none"
    /\ \E ties \in ScaleTies(ListValue(heap, result), old_total_volume,
                              new_total_volume) :
         LET r == scale_recipe(heap, result, old_total_volume,
                               new_total_volume, ties)
         IN  /\ heap' = r.heap
             /\ result' = r.ret
             /\ raised' = r.raised
    /\ pc' = "back"
    /\ UNCHANGED <<steps, new_total_volume, old_total_volume, before>>
    /\ UNCHANGED sessionVars
    /\ UNCHANGED calcVars

NextScaleBack == CallScaleRecipe \/ ScaleBackRecipe

SpecScaleBack == InitScale /\ [][NextScaleBack]_vars

\* ---- units and formatting (calculations.py) --------------------------------
\* Units are named by the values of the enumerations, the micro sign written u.
MassUnit == {"kg", "g", "mg", "ug"}
VolumeUnit == {"L", "mL", "uL"}
ConcentrationUnit == {"M", "mM", "uM", "nM", "% w/v", "% v/v"}

MASS_TO_GRAMS ==
    ("kg" :> Int2Num(1000)) @@ ("g" :> Int2Num(1)) @@ ("mg" :> Dec(1, -3))
    @@ ("ug" :> Dec(1, -6))
VOLUME_TO_LITERS ==
    ("L" :> Int2Num(1)) @@ ("mL" :> Dec(1, -3)) @@ ("uL" :> Dec(1, -6))
CONC_TO_MOLAR ==
    ("M" :> Int2Num(1)) @@ ("mM" :> Dec(1, -3)) @@ ("uM" :> Dec(1, -6))
    @@ ("nM" :> Dec(1, -9))

\* dict.get(key, default)
DictGet(table, key, default) ==
    IF key \in DOMAIN table THEN table[key] ELSE default

\* the text of f"{x:.Nf} unit": sign, magnitude rounded to N decimals, N, unit
Fixed(x, decimals, unit, tieUp) ==
    [neg |-> x.n < 0, num |-> round(RAbs(x), decimals, tieUp),
     decimals |-> decimals, unit |-> unit]

\* a literal text such as "0 L"
Literal(i, unit) == [neg |-> FALSE, num |-> Int2Num(i), decimals |-> 0, unit |-> unit]

\* format_volume with an exact 0 shown in the base unit
format_volume_zero_in_base(volume_L, tieUp) ==
    IF volume_L = Zero THEN Fixed(volume_L, 3, "L", tieUp)
    ELSE IF RGe(volume_L, Int2Num(1)) THEN Fixed(volume_L, 3, "L", tieUp)
    ELSE IF RGe(volume_L, Dec(1, -3))
    THEN Fixed(RMul(volume_L, Int2Num(1000)), 3, "mL", tieUp)
    ELSE Fixed(RMul(volume_L, Int2Num(1000000)), 3, "uL", tieUp)

format_volume(volume_L, tieUp) ==
    IF RGe(volume_L, Int2Num(1)) THEN Fixed(volume_L, 3, "L", tieUp)
    ELSE IF RGe(volume_L, Dec(1, -3))
    THEN Fixed(RMul(volume_L, Int2Num(1000)), 3, "mL", tieUp)
    ELSE Fixed(RMul(volume_L, Int2Num(1000000)), 3, "uL", tieUp)

\* format_mass with the kilogram branch tested by > in place of >=
format_mass_strict_kg(mass_g, tieUp) ==
    IF RGt(mass_g, Int2Num(1000))
    THEN Fixed(RDiv(mass_g, Int2Num(1000)), 3, "kg", tieUp)
    ELSE IF RGe(mass_g, Int2Num(1)) THEN Fixed(mass_g, 3, "g", tieUp)
    ELSE IF RGe(mass_g, Dec(1, -3))
    THEN Fixed(RMul(mass_g, Int2Num(1000)), 3, "mg", tieUp)
    ELSE Fixed(RMul(mass_g, Int2Num(1000000)), 3, "ug", tieUp)

format_mass(mass_g, tieUp) ==
    IF RGe(mass_g, Int2Num(1000))
    THEN Fixed(RDiv(mass_g, Int2Num(1000)), 3, "kg", tieUp)
    ELSE IF RGe(mass_g, Int2Num(1)) THEN Fixed(mass_g, 3, "g", tieUp)
    ELSE IF RGe(mass_g, Dec(1, -3))
    THEN Fixed(RMul(mass_g, Int2Num(1000)), 3, "mg", tieUp)
    ELSE Fixed(RMul(mass_g, Int2Num(1000000)), 3, "ug", tieUp)

format_concentration(conc_M, tieUp) ==
    IF RGe(conc_M, Int2Num(1)) THEN Fixed(conc_M, 3, "M", tieUp)
    ELSE IF RGe(conc_M, Dec(1, -3))
    THEN Fixed(RMul(conc_M, Int2Num(1000)), 3, "mM", tieUp)
    ELSE IF RGe(conc_M, Dec(1, -6))
    THEN Fixed(RMul(conc_M, Int2Num(1000000)), 3, "uM", tieUp)
    ELSE Fixed(RMul(conc_M, Int2Num(1000000000)), 3, "nM", tieUp)

\* ---- stock dilution (calculations.py) --------------------------------------
calculate_stock_volume_raw_v2(c1, c2, v2, c1_unit, c2_unit, v2_unit, ties) ==
    LET c1_M == RMul(c1, DictGet(CONC_TO_MOLAR, c1_unit, Int2Num(1)))
        c2_M == RMul(c2, DictGet(CONC_TO_MOLAR, c2_unit, Int2Num(1)))
        v2_L == RMul(v2, DictGet(VOLUME_TO_LITERS, v2_unit, Int2Num(1)))
        v1_L == RDiv(RMul(c2_M, v2_L), c1_M)
        diluent_L == RSub(v2, v1_L)
    IN  IF c1_M = Zero
        THEN [raised |-> "none", v1_L |-> Zero, v1_fmt |-> Literal(0, "L"),
              diluent_L |-> v2_L, diluent_fmt |-> format_volume(v2_L, ties[2])]
        ELSE [raised |-> "none", v1_L |-> v1_L,
              v1_fmt |-> format_volume(v1_L, ties[1]),
              diluent_L |-> diluent_L,
              diluent_fmt |-> format_volume(diluent_L, ties[2])]

\* calculate_stock_volume with the diluent clamped at 0
calculate_stock_volume_clamped(c1, c2, v2, c1_unit, c2_unit, v2_unit, ties) ==
    LET c1_M == RMul(c1, DictGet(CONC_TO_MOLAR, c1_unit, Int2Num(1)))
        c2_M == RMul(c2, DictGet(CONC_TO_MOLAR, c2_unit, Int2Num(1)))
        v2_L == RMul(v2, DictGet(VOLUME_TO_LITERS, v2_unit, Int2Num(1)))
        v1_L == RDiv(RMul(c2_M, v2_L), c1_M)
        diluent_L == IF RGt(v1_L, v2_L) THEN Zero ELSE RSub(v2_L, v1_L)
    IN  IF c1_M = Zero
        THEN [raised |-> "none", v1_L |-> Zero, v1_fmt |-> Literal(0, "L"),
              diluent_L |-> v2_L, diluent_fmt |-> format_volume(v2_L, ties[2])]
        ELSE [raised |-> "none", v1_L |-> v1_L,
              v1_fmt |-> format_volume(v1_L, ties[1]),
              diluent_L |-> diluent_L,
              diluent_fmt |-> format_volume(diluent_L, ties[2])]

\* calculate_stock_volume without the test of c1_M == 0
calculate_stock_volume_dividing(c1, c2, v2, c1_unit, c2_unit, v2_unit, ties) ==
    LET c1_M == RMul(c1, DictGet(CONC_TO_MOLAR, c1_unit, Int2Num(1)))
        c2_M == RMul(c2, DictGet(CONC_TO_MOLAR, c2_unit, Int2Num(1)))
        v2_L == RMul(v2, DictGet(VOLUME_TO_LITERS, v2_unit, Int2Num(1)))
        v1_L == RDiv(RMul(c2_M, v2_L), c1_M)
        diluent_L == RSub(v2_L, v1_L)
    IN  IF c1_M = Zero
        THEN [raised |-> "ZeroDivisionError", v1_L |-> Zero,
              v1_fmt |-> Literal(0, "L"), diluent_L |-> Zero,
              diluent_fmt |-> Literal(0, "L")]
        ELSE [raised |-> "none", v1_L |-> v1_L,
              v1_fmt |-> format_volume(v1_L, ties[1]),
              diluent_L |-> diluent_L,
              diluent_fmt |-> format_volume(diluent_L, ties[2])]

\* calculate_stock_volume formatting the final volume as the diluent's string
calculate_stock_volume_formatting_v2(c1, c2, v2, c1_unit, c2_unit, v2_unit, ties) ==
    LET c1_M == RMul(c1, DictGet(CONC_TO_MOLAR, c1_unit, Int2Num(1)))
        c2_M == RMul(c2, DictGet(CONC_TO_MOLAR, c2_unit, Int2Num(1)))
        v2_L == RMul(v2, DictGet(VOLUME_TO_LITERS, v2_unit, Int2Num(1)))
        v1_L == RDiv(RMul(c2_M, v2_L), c1_M)
        diluent_L == RSub(v2_L, v1_L)
    IN  IF c1_M = Zero
        THEN [raised |-> "none", v1_L |-> Zero, v1_fmt |-> Literal(0, "L"),
              diluent_L |-> v2_L, diluent_fmt |-> format_volume(v2_L, ties[2])]
        ELSE [raised |-> "none", v1_L |-> v1_L,
              v1_fmt |-> format_volume(v1_L, ties[1]),
              diluent_L |-> diluent_L,
              diluent_fmt |-> format_volume(v2_L, ties[2])]

calculate_stock_volume(c1, c2, v2, c1_unit, c2_unit, v2_unit, ties) ==
    LET c1_M == RMul(c1, DictGet(CONC_TO_MOLAR, c1_unit, Int2Num(1)))
        c2_M == RMul(c2, DictGet(CONC_TO_MOLAR, c2_unit, Int2Num(1)))
        v2_L == RMul(v2, DictGet(VOLUME_TO_LITERS, v2_unit, Int2Num(1)))
        v1_L == RDiv(RMul(c2_M, v2_L), c1_M)
        diluent_L == RSub(v2_L, v1_L)
    IN  IF c1_M = Zero
        THEN [raised |-> "none", v1_L |-> Zero, v1_fmt |-> Literal(0, "L"),
              diluent_L |-> v2_L, diluent_fmt |-> format_volume(v2_L, ties[2])]
        ELSE [raised |-> "none", v1_L |-> v1_L,
              v1_fmt |-> format_volume(v1_L, ties[1]),
              diluent_L |-> diluent_L,
              diluent_fmt |-> format_volume(diluent_L, ties[2])]

\* ---- inputs of the formula harness -----------------------------------------
\* concentrations 0, 1, 2, 4, 10 and volumes 0, 1, 100, 250, in any unit
ConcValues == {Zero, Int2Num(1), Int2Num(2), Int2Num(4), Int2Num(10)}
CalcVolumeValues == {Zero, Int2Num(1), Int2Num(100), Int2Num(250)}

\* The dilutions covered: a target concentration between a millionth of the
\* stock concentration and a thousand times it (the exact difference
\* v2 - v1 of a more extreme dilution has more digits than TLC's integers).
RatioCovered(c) ==
    LET c1_M == RMul(c.c1, DictGet(CONC_TO_MOLAR, c.c1_unit, Int2Num(1)))
        c2_M == RMul(c.c2, DictGet(CONC_TO_MOLAR, c.c2_unit, Int2Num(1)))
    IN  \/ c1_M = Zero
        \/ c2_M = Zero
        \/ RLe(RMul(Dec(1, -6), c1_M), c2_M) /\ RLe(c2_M, RMul(Dec(1, 3), c1_M))

StockVolumeCalls ==
    {c \in [fn : {"calculate_stock_volume"}, c1 : ConcValues, c2 : ConcValues,
            v2 : CalcVolumeValues, c1_unit : ConcentrationUnit,
            c2_unit : ConcentrationUnit, v2_unit : VolumeUnit] :
        RatioCovered(c)}

InitCalc ==
    /\ call \in StockVolumeCalls
    /\ ret = NoCall
    /\ IdleScale
    /\ IdleSession

CallCalculateStockVolume ==
    /\ call.fn = "calculate_stock_volume" /\ ret = NoCall
    /\ \E ties \in [1..2 -> BOOLEAN] :
         ret' = calculate_stock_volume(call.c1, call.c2, call.v2, call.c1_unit,
                                       call.c2_unit, call.v2_unit, ties)
    /\ UNCHANGED call
    /\ UNCHANGED scaleVars
    /\ UNCHANGED sessionVars

NextCalc == CallCalculateStockVolume

SpecCalc == InitCalc /\ [][NextCalc]_vars

\* ---- serial dilution (calculations.py) -------------------------------------
\* the most divisions of one series of the harness
MaxDilutions == 3

\* current_conc after i rounds of "current_conc *= dilution_factor"
RECURSIVE current_conc_multiplied(_, _, _)
current_conc_multiplied(initial_conc, dilution_factor, i) ==
    IF i = 0 THEN initial_conc
    ELSE RMul(current_conc_multiplied(initial_conc, dilution_factor, i - 1),
              dilution_factor)

\* current_conc after i rounds of "current_conc /= dilution_factor"
RECURSIVE current_conc(_, _, _)
current_conc(initial_conc, dilution_factor, i) ==
    IF i = 0 THEN initial_conc
    ELSE RDiv(current_conc(initial_conc, dilution_factor, i - 1), dilution_factor)

\* calculate_serial_dilution reporting the concentrations converted to molar
calculate_serial_dilution_in_molar(initial_conc, dilution_factor, num_dilutions, conc_unit, ties) ==
    LET factor == DictGet(CONC_TO_MOLAR, conc_unit, Int2Num(1))
        conc(i) == current_conc(initial_conc, dilution_factor, i)
    IN  IF num_dilutions + 1 > 0 /\ dilution_factor = Zero
        THEN [raised |-> "ZeroDivisionError", results |-> <<>>]
        ELSE [raised |-> "none",
              results |-> [k \in 1..(num_dilutions + 1) |->
                  [i |-> k - 1, conc |-> RMul(conc(k - 1), factor),
                   fmt |-> format_concentration(RMul(conc(k - 1), factor),
                                                ties[k])]]]

\* calculate_serial_dilution(initial_conc, dilution_factor, num_dilutions,
\* conc_unit): the list of (i, current_conc, formatted string), or the
\* exception of the first division when dilution_factor is 0
calculate_serial_dilution(initial_conc, dilution_factor, num_dilutions, conc_unit, ties) ==
    LET factor == DictGet(CONC_TO_MOLAR, conc_unit, Int2Num(1))
        conc(i) == current_conc(initial_conc, dilution_factor, i)
    IN  IF num_dilutions + 1 > 0 /\ dilution_factor = Zero
        THEN [raised |-> "ZeroDivisionError", results |-> <<>>]
        ELSE [raised |-> "none",
              results |-> [k \in 1..(num_dilutions + 1) |->
                  [i |-> k - 1, conc |-> conc(k - 1),
                   fmt |-> format_concentration(RMul(conc(k - 1), factor),
                                                ties[k])]]]

\* inputs: concentrations -1, 0, 1, 5, 1000; factors 0, 0.5, 1, 1.5, 2, 3, 10
InitialConcValues == {Int2Num(-1), Zero, Int2Num(1), Int2Num(5), Int2Num(1000)}
DilutionFactorValues == {Zero, Dec(5, -1), Int2Num(1), Dec(15, -1), Int2Num(2),
                         Int2Num(3), Int2Num(10)}

\* The series covered: a negative concentration only with a factor whose
\* quotients are decimals (its formatted value, in nanomolar, has more
\* digits than TLC's integers otherwise).
SerialCovered(c) ==
    c.initial_conc.n < 0 => c.dilution_factor \notin {Int2Num(3), Dec(15, -1)}

SerialDilutionCalls ==
    {c \in [fn : {"calculate_serial_dilution"}, initial_conc : InitialConcValues,
            dilution_factor : DilutionFactorValues,
            num_dilutions : (-1)..MaxDilutions,
            conc_unit : ConcentrationUnit] :
        SerialCovered(c)}

InitSerial ==
    /\ call \in SerialDilutionCalls
    /\ ret = NoCall
    /\ IdleScale
    /\ IdleSession

CallCalculateSerialDilution ==
    /\ call.fn = "calculate_serial_dilution" /\ ret = NoCall
    /\ \E ties \in [1..(call.num_dilutions + 1) -> BOOLEAN] :
         ret' = calculate_serial_dilution(call.initial_conc, call.dilution_factor,
                                          call.num_dilutions, call.conc_unit, ties)
    /\ UNCHANGED call
    /\ UNCHANGED scaleVars
    /\ UNCHANGED sessionVars

NextSerial == CallCalculateSerialDilution

SpecSerial == InitSerial /\ [][NextSerial]_vars

\* ---- the format functions called on their own -------------------------------
\* base values: negative, 0, values at and next to every threshold, values
\* that round up to 1000.000, a tie of the third decimal (1.0005), large ones,
\* values inside each branch
FormatValues ==
    {Int2Num(-1), Zero, Dec(1, -10), Dec(5, -10), Dec(1, -9), Dec(15, -8),
     Dec(9999996, -13), Dec(1, -6), Dec(25, -6), Dec(9999996, -10), Dec(1, -3),
     Dec(125, -4), Dec(9999996, -7), Int2Num(1), Dec(10005, -4),
     Dec(123456, -4), Dec(9999996, -4), Int2Num(1000), Dec(12345675, -4),
     Int2Num(5000000), Dec(5, -1), Int2Num(250), Dec(5, -5), Dec(3, -8)}

FormatCalls ==
    [fn : {"format_mass", "format_volume", "format_concentration"},
     x : FormatValues]

InitFormat ==
    /\ call \in FormatCalls
    /\ ret = NoCall
    /\ IdleScale
    /\ IdleSession

CallFormatMass ==
    /\ call.fn = "format_mass" /\ ret = NoCall
    /\ \E tieUp \in BOOLEAN :
         ret' = [raised |-> "none", fmt |-> format_mass(call.x, tieUp)]
    /\ UNCHANGED call
    /\ UNCHANGED scaleVars
    /\ UNCHANGED sessionVars

CallFormatVolume ==
    /\ call.fn = "format_volume" /\ ret = NoCall
    /\ \E tieUp \in BOOLEAN :
         ret' = [raised |-> "none", fmt |-> format_volume(call.x, tieUp)]
    /\ UNCHANGED call
    /\ UNCHANGED scaleVars
    /\ UNCHANGED sessionVars

CallFormatConcentration ==
    /\ call.fn = "format_concentration" /\ ret = NoCall
    /\ \E tieUp \in BOOLEAN :
         ret' = [raised |-> "none", fmt |-> format_concentration(call.x, tieUp)]
    /\ UNCHANGED call
    /\ UNCHANGED scaleVars
    /\ UNCHANGED sessionVars

NextFormat == CallFormatMass \/ CallFormatVolume \/ CallFormatConcentration

SpecFormat == InitFormat /\ [][NextFormat]_vars

\* ---- mass, molarity and percent solution (calculations.py) ------------------
\* calculate_mass without the division by the purity
calculate_mass_ignoring_purity(molarity, volume, mw, purity, volume_unit, conc_unit, tieUp) ==
    LET molarity_M == RMul(molarity, DictGet(CONC_TO_MOLAR, conc_unit, Int2Num(1)))
        volume_L == RMul(volume, DictGet(VOLUME_TO_LITERS, volume_unit, Int2Num(1)))
        purity_fraction == RDiv(purity, Int2Num(100))
        mass_g == RMul(RMul(molarity_M, volume_L), mw)
    IN  IF purity_fraction = Zero
        THEN [raised |-> "ZeroDivisionError"]
        ELSE [raised |-> "none", value |-> mass_g,
              fmt |-> format_mass(mass_g, tieUp)]

\* calculate_mass returning (0, "0 g") for a purity of 0
calculate_mass_saturating(molarity, volume, mw, purity, volume_unit, conc_unit, tieUp) ==
    LET molarity_M == RMul(molarity, DictGet(CONC_TO_MOLAR, conc_unit, Int2Num(1)))
        volume_L == RMul(volume, DictGet(VOLUME_TO_LITERS, volume_unit, Int2Num(1)))
        purity_fraction == RDiv(purity, Int2Num(100))
        mass_g == RDiv(RMul(RMul(molarity_M, volume_L), mw), purity_fraction)
    IN  IF purity_fraction = Zero
        THEN [raised |-> "none", value |-> Zero, fmt |-> Literal(0, "g")]
        ELSE [raised |-> "none", value |-> mass_g,
              fmt |-> format_mass(mass_g, tieUp)]

\* calculate_mass(molarity, volume, mw, purity, volume_unit, conc_unit): the
\* division by a purity_fraction of 0.0 raises ZeroDivisionError
calculate_mass(molarity, volume, mw, purity, volume_unit, conc_unit, tieUp) ==
    LET molarity_M == RMul(molarity, DictGet(CONC_TO_MOLAR, conc_unit, Int2Num(1)))
        volume_L == RMul(volume, DictGet(VOLUME_TO_LITERS, volume_unit, Int2Num(1)))
        purity_fraction == RDiv(purity, Int2Num(100))
        mass_g == RDiv(RMul(RMul(molarity_M, volume_L), mw), purity_fraction)
    IN  IF purity_fraction = Zero
        THEN [raised |-> "ZeroDivisionError"]
        ELSE [raised |-> "none", value |-> mass_g,
              fmt |-> format_mass(mass_g, tieUp)]

\* calculate_molarity testing the volume only before it divides
calculate_molarity_volume_test_only(mass, volume, mw, purity, mass_unit, volume_unit, tieUp) ==
    LET mass_g == RMul(mass, DictGet(MASS_TO_GRAMS, mass_unit, Int2Num(1)))
        volume_L == RMul(volume, DictGet(VOLUME_TO_LITERS, volume_unit, Int2Num(1)))
        purity_fraction == RDiv(purity, Int2Num(100))
        molarity_M == RMul(RDiv(mass_g, RMul(volume_L, mw)), purity_fraction)
    IN  IF volume_L = Zero
        THEN [raised |-> "none", value |-> Zero, fmt |-> Literal(0, "M")]
        ELSE IF mw = Zero
        THEN [raised |-> "ZeroDivisionError"]
        ELSE [raised |-> "none", value |-> molarity_M,
              fmt |-> format_concentration(molarity_M, tieUp)]

calculate_molarity(mass, volume, mw, purity, mass_unit, volume_unit, tieUp) ==
    LET mass_g == RMul(mass, DictGet(MASS_TO_GRAMS, mass_unit, Int2Num(1)))
        volume_L == RMul(volume, DictGet(VOLUME_TO_LITERS, volume_unit, Int2Num(1)))
        purity_fraction == RDiv(purity, Int2Num(100))
        molarity_M == RMul(RDiv(mass_g, RMul(volume_L, mw)), purity_fraction)
    IN  IF volume_L = Zero \/ mw = Zero
        THEN [raised |-> "none", value |-> Zero, fmt |-> Literal(0, "M")]
        ELSE [raised |-> "none", value |-> molarity_M,
              fmt |-> format_concentration(molarity_M, tieUp)]

\* calculate_percent_solution dividing by the volume in liters
calculate_percent_solution_per_liter(mass, volume, mass_unit, volume_unit) ==
    LET mass_g == RMul(mass, DictGet(MASS_TO_GRAMS, mass_unit, Int2Num(1)))
        volume_L == RMul(volume, DictGet(VOLUME_TO_LITERS, volume_unit, Int2Num(1)))
    IN  IF volume_L = Zero
        THEN [raised |-> "none", value |-> Zero]
        ELSE [raised |-> "none",
              value |-> RMul(RDiv(mass_g, volume_L), Int2Num(100))]

calculate_percent_solution(mass, volume, mass_unit, volume_unit) ==
    LET mass_g == RMul(mass, DictGet(MASS_TO_GRAMS, mass_unit, Int2Num(1)))
        volume_mL == RMul(RMul(volume, DictGet(VOLUME_TO_LITERS, volume_unit,
                                               Int2Num(1))),
                          Int2Num(1000))
    IN  IF volume_mL = Zero
        THEN [raised |-> "none", value |-> Zero]
        ELSE [raised |-> "none",
              value |-> RMul(RDiv(mass_g, volume_mL), Int2Num(100))]

\* inputs: molarities 0, 0.5, 1; volumes 0, 1, 250; molecular weights 40,
\* 58.44, 100 (and 0, 40, 100 as divisors); purities 0, 50, 80, 100;
\* masses 0, 1, 10, 58.44; volumes of a percent solution 0, 3, 100, 250
MolarityValues == {Zero, Dec(5, -1), Int2Num(1)}
FormulaVolumeValues == {Zero, Int2Num(1), Int2Num(250)}
MwValues == {Int2Num(40), Dec(5844, -2), Int2Num(100)}
MwDivisorValues == {Zero, Int2Num(40), Int2Num(100)}
PurityValues == {Zero, Int2Num(50), Int2Num(80), Int2Num(100)}
MassValues == {Zero, Int2Num(1), Int2Num(10), Dec(5844, -2)}
PercentVolumeValues == {Zero, Int2Num(3), Int2Num(100), Int2Num(250)}

MassCalls ==
    [fn : {"calculate_mass"}, molarity : MolarityValues,
     volume : FormulaVolumeValues, mw : MwValues, purity : PurityValues,
     volume_unit : VolumeUnit, conc_unit : ConcentrationUnit]

MolarityCalls ==
    [fn : {"calculate_molarity"}, mass : MassValues,
     volume : FormulaVolumeValues, mw : MwDivisorValues, purity : PurityValues,
     mass_unit : MassUnit, volume_unit : VolumeUnit]

PercentCalls ==
    [fn : {"calculate_percent_solution"}, mass : MassValues,
     volume : PercentVolumeValues, mass_unit : MassUnit,
     volume_unit : VolumeUnit]

InitFormula ==
    /\ call \in MassCalls \cup MolarityCalls \cup PercentCalls
    /\ ret = NoCall
    /\ IdleScale
    /\ IdleSession

CallCalculateMass ==
    /\ call.fn = "calculate_mass" /\ ret = NoCall
    /\ \E tieUp \in BOOLEAN :
         ret' = calculate_mass(call.molarity, call.volume, call.mw, call.purity,
                               call.volume_unit, call.conc_unit, tieUp)
    /\ UNCHANGED call
    /\ UNCHANGED scaleVars
    /\ UNCHANGED sessionVars

CallCalculateMolarity ==
    /\ call.fn = "calculate_molarity" /\ ret = NoCall
    /\ \E tieUp \in BOOLEAN :
         ret' = calculate_molarity(call.mass, call.volume, call.mw, call.purity,
                                   call.mass_unit, call.volume_unit, tieUp)
    /\ UNCHANGED call
    /\ UNCHANGED scaleVars
    /\ UNCHANGED sessionVars

CallCalculatePercentSolution ==
    /\ call.fn = "calculate_percent_solution" /\ ret = NoCall
    /\ ret' = calculate_percent_solution(call.mass, call.volume, call.mass_unit,
                                         call.volume_unit)
    /\ UNCHANGED call
    /\ UNCHANGED scaleVars
    /\ UNCHANGED sessionVars

NextFormula ==
    \/ CallCalculateMass
    \/ CallCalculateMolarity
    \/ CallCalculatePercentSolution

SpecFormula == InitFormula /\ [][NextFormula]_vars

\* ---- the entry points that return a value with its formatted string ---------
InitFormatted ==
    /\ call \in MassCalls \cup MolarityCalls \cup StockVolumeCalls
    /\ ret = NoCall
    /\ IdleScale
    /\ IdleSession

NextFormatted ==
    \/ CallCalculateMass
    \/ CallCalculateMolarity
    \/ CallCalculateStockVolume

SpecFormatted == InitFormatted /\ [][NextFormatted]_vars

\* ---- the floats of calculate_mass and calculate_molarity ----------------------
\* Where the result of one formula is fed into another the roundings of the
\* float operations matter, so here a float is an IEEE 754 binary64:
\* (-1)^neg * m * 2^e with a 53-bit m, zero as m = <<>>.  m is a natural
\* number written in base 2^15, least significant limb first, without
\* leading zero limbs.  Every operation rounds to nearest, ties to even
\* (the magnitudes of the formulas stay far from overflow and underflow).
Limb == 32768
LimbBits == 15
MantissaBits == 53

RECURSIVE Pow2(_)
Pow2(k) == IF k <= 0 THEN 1 ELSE 2 * Pow2(k - 1)

RECURSIVE BNorm(_)
BNorm(a) ==
    IF a = <<>> THEN a
    ELSE IF a[Len(a)] = 0 THEN BNorm(SubSeq(a, 1, Len(a) - 1)) ELSE a

BFromInt(n) == BNorm(<<n % Limb, (n \div Limb) % Limb, n \div (Limb * Limb)>>)

LimbAt(a, i) == IF i <= Len(a) THEN a[i] ELSE 0

RECURSIVE BAddFrom(_, _, _, _)
BAddFrom(a, b, i, carry) ==
    IF i > Len(a) /\ i > Len(b)
    THEN IF carry = 0 THEN <<>> ELSE <<carry>>
    ELSE LET t == LimbAt(a, i) + LimbAt(b, i) + carry
         IN  <<t % Limb>> \o BAddFrom(a, b, i + 1, t \div Limb)

BAdd(a, b) == BAddFrom(a, b, 1, 0)

\* a - b for a >= b
RECURSIVE BSubFrom(_, _, _, _)
BSubFrom(a, b, i, borrow) ==
    IF i > Len(a) THEN <<>>
    ELSE LET t == a[i] - LimbAt(b, i) - borrow
         IN  IF t < 0 THEN <<t + Limb>> \o BSubFrom(a, b, i + 1, 1)
             ELSE <<t>> \o BSubFrom(a, b, i + 1, 0)

BSub(a, b) == BNorm(BSubFrom(a, b, 1, 0))

\* -1, 0 or 1 as a < b, a = b or a > b, comparing from limb i down
RECURSIVE BCmpFrom(_, _, _)
BCmpFrom(a, b, i) ==
    IF i = 0 THEN 0
    ELSE IF a[i] < b[i] THEN -1
    ELSE IF a[i] > b[i] THEN 1
    ELSE BCmpFrom(a, b, i - 1)

BCmp(a, b) ==
    IF Len(a) < Len(b) THEN -1
    ELSE IF Len(a) > Len(b) THEN 1
    ELSE BCmpFrom(a, b, Len(a))

\* a * k for a limb k
RECURSIVE BMulLimbFrom(_, _, _, _)
BMulLimbFrom(a, k, i, carry) ==
    IF i > Len(a)
    THEN IF carry = 0 THEN <<>> ELSE <<carry>>
    ELSE LET t == a[i] * k + carry
         IN  <<t % Limb>> \o BMulLimbFrom(a, k, i + 1, t \div Limb)

RECURSIVE BMulFrom(_, _, _)
BMulFrom(a, b, j) ==
    IF j > Len(b) THEN <<>>
    ELSE BAdd(BMulLimbFrom(a, b[j], 1, 0), <<0>> \o BMulFrom(a, b, j + 1))

BMul(a, b) == BNorm(BMulFrom(a, b, 1))

\* a * 2^k and the integer part of a / 2^k
BShl(a, k) ==
    IF a = <<>> THEN a
    ELSE [i \in 1..(k \div LimbBits) |-> 0]
            \o BMulLimbFrom(a, Pow2(k % LimbBits), 1, 0)

BShr(a, k) ==
    LET drop == k \div LimbBits
        r == k % LimbBits
        x == IF drop >= Len(a) THEN <<>> ELSE SubSeq(a, drop + 1, Len(a))
    IN  BNorm([i \in 1..Len(x) |->
                 (x[i] \div Pow2(r))
                 + (LimbAt(x, i + 1) % Pow2(r)) * Pow2(LimbBits - r)])

RECURSIVE BitLength(_)
BitLength(n) == IF n = 0 THEN 0 ELSE 1 + BitLength(n \div 2)

BBitLength(a) ==
    IF a = <<>> THEN 0
    ELSE LimbBits * (Len(a) - 1) + BitLength(a[Len(a)])

FloatZero == [neg |-> FALSE, m |-> <<>>, e |-> 0]

\* the binary64 nearest to (-1)^neg * (N + s) * 2^E, where 0 < s < 1 when
\* sticky and s = 0 otherwise; ties go to the even mantissa
RoundBinary64(neg, N, E, sticky) ==
    LET len == BBitLength(N)
        shift == len - MantissaBits
        q == BShr(N, shift)
        rest == BSub(N, BShl(q, shift))
        half == BShl(<<1>>, shift - 1)
        c == BCmp(rest, half)
        up == c > 0 \/ (c = 0 /\ (sticky \/ q[1] % 2 = 1))
        q1 == IF up THEN BAdd(q, <<1>>) ELSE q
    IN  IF N = <<>> THEN FloatZero
        ELSE IF shift <= 0
        THEN [neg |-> neg, m |-> BShl(N, -shift), e |-> E + shift]
        ELSE IF BBitLength(q1) > MantissaBits
        THEN [neg |-> neg, m |-> BShr(q1, 1), e |-> E + shift + 1]
        ELSE [neg |-> neg, m |-> q1, e |-> E + shift]

\* x * y of two floats
fmul(x, y) ==
    IF x.m = <<>> \/ y.m = <<>> THEN FloatZero
    ELSE RoundBinary64(x.neg # y.neg, BMul(x.m, y.m), x.e + y.e, FALSE)

\* one step of the long division of r by d: the next remainder and the
\* quotient q with its next bit
DivStep(r, d, q) ==
    IF BCmp(r, d) >= 0
    THEN [r |-> BShl(BSub(r, d), 1), q |-> BAdd(BShl(q, 1), <<1>>)]
    ELSE [r |-> BShl(r, 1), q |-> BShl(q, 1)]

\* k steps: q becomes the integer part of (the first r) * 2^(k - 1) / d, and
\* a remainder is left when r # <<>>
RECURSIVE DivBits(_, _, _, _)
DivBits(r, d, q, k) ==
    IF k = 0 THEN [q |-> q, r |-> r]
    ELSE CHOOSE end \in {DivBits(s.r, d, s.q, k - 1) : s \in {DivStep(r, d, q)}} : TRUE

QuotientBits == 57

\* x / y of two floats, y nonzero (Python raises ZeroDivisionError on 0.0)
fdiv(x, y) ==
    IF x.m = <<>> THEN FloatZero
    ELSE LET qr == DivBits(x.m, y.m, <<>>, QuotientBits)
         IN  RoundBinary64(x.neg # y.neg, qr.q, x.e - y.e - (QuotientBits - 1),
                           qr.r # <<>>)

\* the float of an integer, and of the decimal literal (n / 1) * 10^e, which
\* is the correctly rounded quotient or product of two exact floats
FloatOfInt(i) == RoundBinary64(i < 0, BFromInt(Abs(i)), 0, FALSE)
Float(x) ==
    IF x.e >= 0 THEN FloatOfInt(x.n * Pow10(x.e))
    ELSE fdiv(FloatOfInt(x.n), FloatOfInt(Pow10(-x.e)))

\* calculate_mass in floats: the grams returned (the string that comes with
\* them is format_mass of these grams and is not fed on)
calculate_mass_binary64_ignoring_purity(molarity, volume, mw, purity, volume_unit, conc_unit) ==
    LET molarity_M == fmul(Float(molarity), Float(DictGet(CONC_TO_MOLAR, conc_unit, Int2Num(1))))
        volume_L == fmul(Float(volume), Float(DictGet(VOLUME_TO_LITERS, volume_unit, Int2Num(1))))
        purity_fraction == fdiv(Float(purity), FloatOfInt(100))
    IN  IF purity = Zero
        THEN [fn |-> "calculate_mass", raised |-> "ZeroDivisionError"]
        ELSE [fn |-> "calculate_mass", raised |-> "none",
              value |-> fmul(fmul(molarity_M, volume_L), Float(mw))]

calculate_mass_binary64(molarity, volume, mw, purity, volume_unit, conc_unit) ==
    LET molarity_M == fmul(Float(molarity), Float(DictGet(CONC_TO_MOLAR, conc_unit, Int2Num(1))))
        volume_L == fmul(Float(volume), Float(DictGet(VOLUME_TO_LITERS, volume_unit, Int2Num(1))))
        purity_fraction == fdiv(Float(purity), FloatOfInt(100))
    IN  IF purity_fraction = FloatZero
        THEN [fn |-> "calculate_mass", raised |-> "ZeroDivisionError"]
        ELSE [fn |-> "calculate_mass", raised |-> "none",
              value |-> fdiv(fmul(fmul(molarity_M, volume_L), Float(mw)),
                             purity_fraction)]

\* calculate_molarity in floats, called with a float mass in mass_unit
calculate_molarity_binary64(mass, volume, mw, purity, mass_unit, volume_unit) ==
    LET mass_g == fmul(mass, Float(DictGet(MASS_TO_GRAMS, mass_unit, Int2Num(1))))
        volume_L == fmul(Float(volume), Float(DictGet(VOLUME_TO_LITERS, volume_unit, Int2Num(1))))
        purity_fraction == fdiv(Float(purity), FloatOfInt(100))
    IN  IF volume_L = FloatZero \/ Float(mw) = FloatZero
        THEN [fn |-> "calculate_molarity", raised |-> "none",
              value |-> FloatZero]
        ELSE [fn |-> "calculate_molarity", raised |-> "none",
              value |-> fmul(fdiv(mass_g, fmul(volume_L, Float(mw))),
                             purity_fraction)]

\* the round trip: calculate_mass(M, V, mw, purity) with M in molar, then its
\* grams into calculate_molarity with the same V, mw and purity
RoundTripMwValues == MwValues \cup {Zero}

RoundTripCalls ==
    [fn : {"calculate_mass"}, molarity : MolarityValues,
     volume : FormulaVolumeValues, mw : RoundTripMwValues,
     purity : PurityValues, volume_unit : VolumeUnit, conc_unit : {"M"}]

InitRoundTrip ==
    /\ call \in RoundTripCalls
    /\ ret = NoCall
    /\ IdleScale
    /\ IdleSession

CallCalculateMassBinary64 ==
    /\ call.fn = "calculate_mass" /\ ret = NoCall
    /\ ret' = calculate_mass_binary64(call.molarity, call.volume, call.mw,
                                      call.purity, call.volume_unit,
                                      call.conc_unit)
    /\ UNCHANGED call
    /\ UNCHANGED scaleVars
    /\ UNCHANGED sessionVars

FeedGramsToCalculateMolarity ==
    /\ ret.fn = "calculate_mass" /\ ret.raised = "none"
    /\ ret' = [grams |-> ret.value]
              @@ calculate_molarity_binary64(ret.value, call.volume, call.mw,
                                             call.purity, "g", call.volume_unit)
    /\ UNCHANGED call
    /\ UNCHANGED scaleVars
    /\ UNCHANGED sessionVars

NextRoundTrip == CallCalculateMassBinary64 \/ FeedGramsToCalculateMolarity

SpecRoundTrip == InitRoundTrip /\ [][NextRoundTrip]_vars

\* ---- Protocol Designer (app.py) --------------------------------------------
Item(reagent, n, e, unit) ==
    [reagent |-> reagent, amount_per_L |-> Dec(n, e), unit |-> unit]

COMMON_RECIPES ==
    {[name |-> "PBS (Phosphate Buffered Saline) 10X",
      note |-> "Standard PBS (Phosphate Buffered Saline) 10X",
      steps |-> <<Item("Sodium Chloride (NaCl)", 80, 0, "g"),
                  Item("Potassium Chloride (KCl)", 2, 0, "g"),
                  Item("Sodium Phosphate Dibasic", 144, -1, "g"),
                  Item("Potassium Phosphate Monobasic", 24, -1, "g")>>],
     [name |-> "TAE Buffer 50X",
      note |-> "Standard TAE Buffer 50X",
      steps |-> <<Item("Tris Base", 242, 0, "g"),
                  Item("Acetic Acid (Glacial)", 571, -1, "mL"),
                  Item("EDTA (0.5M, pH 8.0)", 100, 0, "mL")>>],
     [name |-> "LB Broth (Luria-Bertani)",
      note |-> "Standard LB Broth (Luria-Bertani)",
      steps |-> <<Item("Tryptone", 10, 0, "g"),
                  Item("Yeast Extract", 5, 0, "g"),
                  Item("Sodium Chloride (NaCl)", 10, 0, "g")>>],
     [name |-> "TE Buffer 1X",
      note |-> "Standard TE Buffer 1X",
      steps |-> <<Item("Tris-HCl (1M, pH 8.0)", 10, 0, "mL"),
                  Item("EDTA (0.5M, pH 8.0)", 2, 0, "mL")>>]}

\* min_value of the Final Volume input
FinalVolumeMin == Dec(1, -1)

\* The page is drawn down to the Final Volume input and beyond only when the
\* session's volume is a legal value of that input: st.number_input raises
\* for a value below its min_value, which ends the script run.
PageRenders == RGe(protocol_total_volume, FinalVolumeMin)

\* inputs of the session
LoadableRecipes ==
    {r \in COMMON_RECIPES : r.name \in {"TE Buffer 1X", "LB Broth (Luria-Bertani)"}}
LoadVolumeValues == {Zero, Int2Num(100)}
FinalVolumeValues == {Dec(1, -1), Int2Num(100), Int2Num(300)}
ManualAmountValues == {Int2Num(10), Dec(5, -5)}
SessionVolumeUnits == {"mL", "L", "uL"}
StockInputs == {[c1 |-> Int2Num(10), c1_unit |-> "M", c2 |-> Int2Num(1), c2_unit |-> "mM",
                 note |-> "(From 10.0 M stock -> 1.0 mM)"]}

\* load_and_scale_recipe(recipe_steps, recipe_name, target_vol, target_unit)
new_steps(recipe, target_vol_L, ties) ==
    [i \in 1..Len(recipe.steps) |->
        [step_number |-> i,
         reagent |-> recipe.steps[i].reagent,
         amount |-> Format4g(RMul(recipe.steps[i].amount_per_L, target_vol_L), ties[i]),
         unit |-> recipe.steps[i].unit,
         notes |-> recipe.note]]

LoadTies(recipe, target_vol_L) ==
    {ties \in [1..Len(recipe.steps) -> BOOLEAN] :
        \A i \in 1..Len(recipe.steps) :
            ties[i] => IsTie4g(RMul(recipe.steps[i].amount_per_L, target_vol_L))}

LoadRecipe ==
    \E recipe \in LoadableRecipes, target_vol \in LoadVolumeValues,
       target_unit \in SessionVolumeUnits :
      LET target_vol_L ==
              IF target_unit = "mL" THEN RDiv(target_vol, Int2Num(1000))
              ELSE IF target_unit = "uL" THEN RDiv(target_vol, Int2Num(1000000))
              ELSE target_vol
      IN  /\ \E ties \in LoadTies(recipe, target_vol_L) :
                protocol_steps' = new_steps(recipe, target_vol_L, ties)
          /\ prot_name' = [set |-> TRUE, recipe_name |-> recipe.name,
                           target_vol |-> target_vol, target_unit |-> target_unit]
          /\ protocol_total_volume' = target_vol
          /\ protocol_volume_unit' = target_unit
          \* st.rerun(): the next run of the page draws the Final Volume input
          \* with the loaded volume as its value, or raises there
          /\ IF RGe(target_vol, FinalVolumeMin)
             THEN prot_vol' = target_vol /\ raised' = "none"
             ELSE prot_vol' = prot_vol /\ raised' = "StreamlitAPIException"
          /\ UNCHANGED saved_recipes
          /\ UNCHANGED <<heap, steps, new_total_volume, old_total_volume,
                         result, before, pc>>
          /\ UNCHANGED calcVars

\* the Volume Unit select box of a run of the page
SelectVolumeUnit ==
    /\ PageRenders
    /\ \E vol_unit \in SessionVolumeUnits : protocol_volume_unit' = vol_unit
    /\ UNCHANGED <<protocol_steps, protocol_total_volume, prot_name, prot_vol,
                   saved_recipes>>
    /\ UNCHANGED scaleVars
    /\ UNCHANGED calcVars

\* the Final Volume input and the auto-scale block of a run of the page
AutoScale ==
    /\ PageRenders
    /\ \E new_volume \in FinalVolumeValues :
         LET old_volume == protocol_total_volume
         IN  /\ RGe(new_volume, FinalVolumeMin)
             /\ prot_vol' = new_volume
             /\ IF new_volume # old_volume /\ RGt(old_volume, Zero)
                THEN /\ \E ties \in ScaleTies(protocol_steps, new_volume, old_volume) :
                          protocol_steps' =
                              ScaledSteps(protocol_steps, new_volume, old_volume, ties)
                     /\ protocol_total_volume' = new_volume
                ELSE UNCHANGED <<protocol_steps, protocol_total_volume>>
    /\ UNCHANGED <<protocol_volume_unit, prot_name, saved_recipes>>
    /\ UNCHANGED scaleVars
    /\ UNCHANGED calcVars

\* the amount and unit the stock-solution mode of the Add Step form works out
StockAmount(in, tieUp) ==
    LET r == calculate_stock_volume(in.c1, in.c2, protocol_total_volume, in.c1_unit,
                                    in.c2_unit, protocol_volume_unit,
                                    [i \in 1..2 |-> FALSE])
        v1_L == r.v1_L
    IN  IF RLt(v1_L, Dec(1, -4))
        THEN [amount |-> Format4g(RMul(v1_L, Int2Num(1000000)), tieUp), unit |-> "uL"]
        ELSE IF RLt(v1_L, Int2Num(1))
        THEN [amount |-> Format4g(RMul(v1_L, Int2Num(1000)), tieUp), unit |-> "mL"]
        ELSE [amount |-> Format4g(v1_L, tieUp), unit |-> "L"]

append(S, step) == Append(S, step)

\* the Add Step button, the form in manual mode (a reagent weighed in grams)
AddStep ==
    /\ PageRenders
    /\ Len(protocol_steps) < MaxSteps
    /\ \E kind \in {k \in StepKinds : k.unit = "g"},
          final_amount \in ManualAmountValues :
         protocol_steps' =
             append(protocol_steps,
                    Step(Len(protocol_steps) + 1, kind, final_amount))
    /\ UNCHANGED <<protocol_total_volume, protocol_volume_unit, prot_name,
                   prot_vol, saved_recipes>>
    /\ UNCHANGED scaleVars
    /\ UNCHANGED calcVars

\* the Add Step button, the form in stock-solution mode
AddStepFromStock ==
    /\ PageRenders
    /\ Len(protocol_steps) < MaxSteps
    /\ \E in \in StockInputs, tieUp \in BOOLEAN :
         LET a == StockAmount(in, tieUp)
         IN  protocol_steps' =
                 append(protocol_steps,
                        [step_number |-> Len(protocol_steps) + 1,
                         reagent |-> "Tris-HCl (1M, pH 8.0)",
                         amount |-> a.amount, unit |-> a.unit, notes |-> in.note])
    /\ UNCHANGED <<protocol_total_volume, protocol_volume_unit, prot_name,
                   prot_vol, saved_recipes>>
    /\ UNCHANGED scaleVars
    /\ UNCHANGED calcVars

\* protocol_steps.pop(i) alone
pop(S, i) == [j \in 1..(Len(S) - 1) |-> IF j < i THEN S[j] ELSE S[j + 1]]

\* protocol_steps.pop(i) and the renumbering loop after it
pop_and_renumber(S, i) ==
    [j \in 1..(Len(S) - 1) |->
        [(IF j < i THEN S[j] ELSE S[j + 1]) EXCEPT !.step_number = j]]

\* the delete button of step i
DeleteStep ==
    /\ PageRenders
    /\ \E i \in 1..Len(protocol_steps) :
         protocol_steps' = pop_and_renumber(protocol_steps, i)
    /\ UNCHANGED <<protocol_total_volume, protocol_volume_unit, prot_name,
                   prot_vol, saved_recipes>>
    /\ UNCHANGED scaleVars
    /\ UNCHANGED calcVars

\* init_session_state() in a new session
Init ==
    /\ protocol_steps = <<>>
    /\ protocol_total_volume = Int2Num(100)
    /\ protocol_volume_unit = "mL"
    /\ prot_name = [set |-> FALSE]   \* no entry yet: "My Protocol" is shown
    /\ prot_vol = Int2Num(100)       \* the Final Volume input shows its default
    /\ saved_recipes = NoFile
    /\ IdleScale
    /\ IdleCalc

Next ==
    \/ LoadRecipe
    \/ SelectVolumeUnit
    \/ AutoScale
    \/ AddStep
    \/ AddStepFromStock
    \/ DeleteStep

Spec == Init /\ [][Next]_vars

\* ---- saved recipes (app.py) ---------------------------------------------------
\* saved_recipes is the file saved_recipes.json: missing, not JSON, or a JSON
\* document, written here as the value json.load reads back (the strings,
\* numbers, lists and dicts of a recipe come back from json.dump as they were).

\* load_user_recipes(): the "recipes" of the document, [] when it has none or
\* when the file is missing or is not JSON
load_user_recipes(file) ==
    IF file.kind = "json" /\ "recipes" \in DOMAIN file.data
    THEN file.data.recipes
    ELSE <<>>

\* the steps as they are stored: amount_per_L in place of amount when the
\* base volume is positive, the step as it is otherwise
normalized_steps(steps_, base_vol_L) ==
    [i \in 1..Len(steps_) |->
        IF RGt(base_vol_L, Zero)
        THEN [f \in (DOMAIN steps_[i] \ {"amount"}) \cup {"amount_per_L"} |->
                 IF f = "amount_per_L" THEN RDiv(steps_[i].amount, base_vol_L)
                 ELSE steps_[i][f]]
        ELSE steps_[i]]

\* save_user_recipe_to_file appending without removing the recipe of that name
save_user_recipe_to_file_appending(file, name, steps_, base_vol_L, opened) ==
    LET new_recipe == [name |-> name, steps |-> normalized_steps(steps_, base_vol_L)]
        existing == load_user_recipes(file)
    IN  IF opened
        THEN [file |-> [kind |-> "json",
                        data |-> [recipes |-> Append(existing, new_recipe)]],
              ret |-> [success |-> TRUE, msg |-> "Recipe saved successfully!"]]
        ELSE [file |-> file,
              ret |-> [success |-> FALSE, msg |-> "Error saving recipe"]]

\* save_user_recipe_to_file(name, steps, base_vol_L); opened is whether
\* open(recipes_path, "w") succeeded (the file is untouched when it raised)
save_user_recipe_to_file(file, name, steps_, base_vol_L, opened) ==
    LET new_recipe == [name |-> name, steps |-> normalized_steps(steps_, base_vol_L)]
        existing == SelectSeq(load_user_recipes(file), LAMBDA r : r.name # name)
    IN  IF opened
        THEN [file |-> [kind |-> "json",
                        data |-> [recipes |-> Append(existing, new_recipe)]],
              ret |-> [success |-> TRUE, msg |-> "Recipe saved successfully!"]]
        ELSE [file |-> file,
              ret |-> [success |-> FALSE, msg |-> "Error saving recipe"]]

\* inputs: two names, three protocols, base volumes 0, 0.1 and 1 liter, and
\* the files found at the start: none, one that is not JSON, a document
\* without recipes, and one holding two recipes saved earlier
SaveNames == {"My Protocol", "TE Buffer 1X (100 mL)"}
SaveProtocols ==
    {<<>>,
     <<Step(1, [reagent |-> "Sodium Chloride (NaCl)", unit |-> "g", notes |-> ""],
            Int2Num(10))>>,
     <<Step(1, [reagent |-> "Tris-HCl (1M, pH 8.0)", unit |-> "mL", notes |-> ""],
            Int2Num(1)),
       Step(2, [reagent |-> "EDTA (0.5M, pH 8.0)", unit |-> "mL", notes |-> ""],
            Dec(2, -1))>>}
SaveVolumeValues == {Zero, Dec(1, -1), Int2Num(1)}
EarlierRecipes ==
    <<[name |-> "My Protocol",
       steps |-> <<[step_number |-> 1, reagent |-> "Glycerol", unit |-> "mL",
                    notes |-> "", amount_per_L |-> Int2Num(7)]>>],
      [name |-> "Wash Buffer",
       steps |-> <<[step_number |-> 1, reagent |-> "Tween 20", unit |-> "mL",
                    notes |-> "", amount_per_L |-> Int2Num(5)]>>]>>
InitialFiles ==
    {NoFile, [kind |-> "corrupt"], [kind |-> "json", data |-> [version |-> 1]],
     [kind |-> "json", data |-> [recipes |-> EarlierRecipes]]}

InitSave ==
    /\ protocol_steps = <<>>
    /\ protocol_total_volume = Int2Num(100)
    /\ protocol_volume_unit = "mL"
    /\ prot_name = [set |-> FALSE]
    /\ prot_vol = Int2Num(100)
    /\ saved_recipes \in InitialFiles
    /\ IdleScale
    /\ IdleCalc

SaveUserRecipeToFile ==
    /\ \E name \in SaveNames, steps_ \in SaveProtocols,
          base_vol_L \in SaveVolumeValues, opened \in BOOLEAN :
         LET r == save_user_recipe_to_file(saved_recipes, name, steps_,
                                           base_vol_L, opened)
         IN  /\ saved_recipes' = r.file
             /\ ret' = r.ret
             /\ call' = [fn |-> "save_user_recipe_to_file", name |-> name,
                         steps |-> steps_, base_vol_L |-> base_vol_L]
    /\ UNCHANGED <<protocol_steps, protocol_total_volume, protocol_volume_unit,
                   prot_name, prot_vol>>
    /\ UNCHANGED scaleVars

NextSave == SaveUserRecipeToFile

SpecSave == InitSave /\ [][NextSave]_vars

\* ---- claims about scale_recipe --------------------------------------------
InputValue == ListValue(before, steps)
ResultValue == ListValue(heap, result)
Positive(x) == x.n > 0
\* x has at most k decimal places
IsDecimal(x, k) == x.d = 1 /\ x.e >= -k
HalfUnit == Dec(5, -5)
ScaleReturned == pc = "returned" /\ raised = "none"

\* C1: for old > 0 and new > 0 the i-th amount returned by scale_recipe is
\* S[i].amount * new / old rounded to 4 decimal places: a number of at most 4
\* decimal places no further than 0.00005 from the exact product.
C1_AmountsScaledAndRounded ==
    (pc = "returned" /\ Positive(old_total_volume) /\ Positive(new_total_volume)) =>
        /\ raised = "none"
        /\ Len(ResultValue) = Len(InputValue)
        /\ \A i \in 1..Len(InputValue) :
             LET x == RDiv(RMul(InputValue[i].amount, new_total_volume),
                           old_total_volume)
                 r == ResultValue[i].amount
             IN  IsDecimal(r, 4) /\ RLe(RAbs(RSub(r, x)), HalfUnit)

C1_Witness ==
    /\ ScaleReturned
    /\ Positive(old_total_volume) /\ Positive(new_total_volume)
    /\ Len(InputValue) = 2
    /\ \E i \in 1..2 :
         /\ ResultValue[i].amount # InputValue[i].amount
         /\ ResultValue[i].amount #
              RDiv(RMul(InputValue[i].amount, new_total_volume), old_total_volume)

\* C2: scale_recipe returns as many steps as it was given, in the same order,
\* and step i of the result has the step number, reagent, unit and notes of
\* step i of the input, whatever the volumes are.
C2_OnlyAmountsChange ==
    pc = "returned" =>
        /\ raised = "none"
        /\ Len(ResultValue) = Len(InputValue)
        /\ \A i \in 1..Len(InputValue) :
             /\ ResultValue[i].step_number = InputValue[i].step_number
             /\ ResultValue[i].reagent = InputValue[i].reagent
             /\ ResultValue[i].unit = InputValue[i].unit
             /\ ResultValue[i].notes = InputValue[i].notes
             /\ DOMAIN ResultValue[i] = DOMAIN InputValue[i]

C2_Witness ==
    /\ ScaleReturned
    /\ Len(InputValue) = 2
    /\ \E i \in 1..2 :
         /\ ResultValue[i].unit = "uL"
         /\ RGe(ResultValue[i].amount, Int2Num(1000))
         /\ RLt(InputValue[i].amount, Int2Num(1000))

\* C3 as stated: scale_recipe(S, v, v) == S for every S and every v > 0.
C3_IdentityFactorIsNoOp ==
    (pc = "returned" /\ new_total_volume = old_total_volume
        /\ Positive(old_total_volume)) =>
        raised = "none" /\ ResultValue = InputValue

\* C3, amended: scale_recipe(S, v, v) == S for every v > 0 and every S whose
\* amounts have at most 4 decimal places.
C3_IdentityFactorKeepsRoundedAmounts ==
    (pc = "returned" /\ new_total_volume = old_total_volume
        /\ Positive(old_total_volume)
        /\ \A i \in 1..Len(InputValue) : IsDecimal(InputValue[i].amount, 4)) =>
        raised = "none" /\ ResultValue = InputValue

C3_Witness ==
    /\ ScaleReturned
    /\ new_total_volume = old_total_volume /\ Positive(old_total_volume)
    /\ Len(InputValue) = 2
    /\ InputValue[1].amount = Dec(7, -4)
    /\ ResultValue = InputValue
    /\ result # steps

\* C5: scale_recipe leaves its input as it was: after the call the input list
\* and every step of it (every object that existed before the call) hold what
\* they held before, for every new and old volume, old == 0 included.
C5_InputNotMutated ==
    pc = "returned" =>
        /\ Len(heap) >= Len(before)
        /\ \A a \in 1..Len(before) : heap[a] = before[a]

C5_Witness ==
    /\ ScaleReturned
    /\ old_total_volume # Zero
    /\ Len(InputValue) = 2
    /\ \A i \in 1..2 : ResultValue[i].amount # InputValue[i].amount
    /\ ListValue(heap, steps) = InputValue

\* C6: the list scale_recipe returns and its steps are objects other than the
\* input list and its steps, for every old volume (0 included), so that what
\* the caller then does to the result leaves the input as it was.
C6_ResultSharesNothing ==
    /\ ScaleReturned =>
         /\ result # steps
         /\ \A i \in 1..Len(heap[result].items) :
              \A j \in 1..Len(heap[steps].items) :
                 heap[result].items[i] # heap[steps].items[j]
    /\ pc = "changed" => ListValue(heap, steps) = InputValue

\* C7: with old_total_volume == 0, scale_recipe raises nothing and returns the
\* steps as they were given, in the same order with the same amounts.
C7_ZeroBaseIsNoOp ==
    (pc = "returned" /\ old_total_volume = Zero) =>
        raised = "none" /\ ResultValue = InputValue

C7_Witness ==
    /\ ScaleReturned
    /\ old_total_volume = Zero
    /\ new_total_volume = Int2Num(200)
    /\ Len(InputValue) = 2
    /\ InputValue[1].amount = Int2Num(10)

RatioGap(i, j) ==
    RAbs(RSub(RMul(ResultValue[i].amount, InputValue[j].amount),
              RMul(ResultValue[j].amount, InputValue[i].amount)))

\* C8 as stated: for old > 0 and new > 0 and any two steps i and j,
\* result[i].amount * S[j].amount == result[j].amount * S[i].amount.
C8_RatiosPreservedExactly ==
    (ScaleReturned /\ Positive(old_total_volume) /\ Positive(new_total_volume)) =>
        \A i, j \in 1..Len(InputValue) : RatioGap(i, j) = Zero

\* C8, amended: for old > 0 and new > 0 and any two steps i and j, the ratios
\* are preserved up to the rounding of each amount to 4 decimal places:
\* |result[i].amount * S[j].amount - result[j].amount * S[i].amount|
\*     <= 0.00005 * (S[i].amount + S[j].amount).
C8_RatiosPreservedUpToRounding ==
    (ScaleReturned /\ Positive(old_total_volume) /\ Positive(new_total_volume)) =>
        \A i, j \in 1..Len(InputValue) :
            RLe(RatioGap(i, j),
                RMul(HalfUnit, RAdd(InputValue[i].amount, InputValue[j].amount)))

C8_Witness ==
    /\ ScaleReturned
    /\ Positive(old_total_volume) /\ Positive(new_total_volume)
    /\ Len(InputValue) = 2
    /\ RatioGap(1, 2) # Zero

\* ---- claims about the Protocol Designer -------------------------------------

\* C4: in the session's protocol, whatever Add Step, delete, load-recipe and
\* auto-scale operations led to it from the empty protocol, the step_number of
\* every step is its index in the sequence plus 1 (its position counted from 1).
C4_StepNumbersArePositions ==
    \A i \in 1..Len(protocol_steps) : protocol_steps[i].step_number = i

\* two steps left of the three of LB Broth after its first was deleted and the
\* protocol was scaled to 300
C4_Witness ==
    /\ Len(protocol_steps) = 2
    /\ protocol_steps[1].reagent = "Yeast Extract"
    /\ protocol_steps[2].reagent = "Sodium Chloride (NaCl)"
    /\ protocol_steps[2].notes = "Standard LB Broth (Luria-Bertani)"
    /\ protocol_total_volume = Int2Num(300)
    /\ protocol_steps[1].step_number = 1

\* ---- claims about the formula entry points ----------------------------------
CalcReturned == ret # NoCall
Called_c1_M == RMul(call.c1, DictGet(CONC_TO_MOLAR, call.c1_unit, Int2Num(1)))
Called_c2_M == RMul(call.c2, DictGet(CONC_TO_MOLAR, call.c2_unit, Int2Num(1)))
Called_v2_L == RMul(call.v2, VOLUME_TO_LITERS[call.v2_unit])

\* C9: a formula entry point given a unit that is not in its dimension's
\* conversion table (% w/v, % v/v) fails with an unsupported-unit error and
\* returns no number.
C9_UnsupportedUnitFails ==
    (CalcReturned /\ (call.c1_unit \notin DOMAIN CONC_TO_MOLAR
                      \/ call.c2_unit \notin DOMAIN CONC_TO_MOLAR)) =>
        ret.raised = "UnsupportedUnitError"

C11_NegativeDiluentReturned ==
    (CalcReturned /\ call.fn = "calculate_stock_volume"
        /\ Positive(Called_c1_M) /\ RGt(Called_c2_M, Called_c1_M)
        /\ Positive(Called_v2_L)) =>
        /\ ret.raised = "none"
        /\ RGt(ret.v1_L, Called_v2_L)
        /\ ret.diluent_L.n < 0
        /\ ret.diluent_L = RSub(Called_v2_L, ret.v1_L)
        /\ ret.diluent_fmt.neg

\* 1 M stock, 10 M target, 100 mL: 1 L of stock and -0.9 L of diluent
C11_Witness ==
    /\ CalcReturned
    /\ call.c1 = Int2Num(1) /\ call.c1_unit = "M"
    /\ call.c2 = Int2Num(10) /\ call.c2_unit = "M"
    /\ call.v2 = Int2Num(100) /\ call.v2_unit = "mL"
    /\ ret.v1_L = Int2Num(1)
    /\ ret.diluent_L = Dec(-9, -1)
    /\ ret.diluent_fmt = [neg |-> TRUE, num |-> Int2Num(900000), decimals |-> 3,
                          unit |-> "uL"]

\* C12: when the stock concentration in molar is 0, calculate_stock_volume
\* raises nothing and returns stock volume 0 ("0 L") and a diluent equal to
\* the whole target volume v2 in liters, for every c2 and v2.
C12_ZeroStockShortCircuits ==
    (CalcReturned /\ call.fn = "calculate_stock_volume" /\ Called_c1_M = Zero) =>
        /\ ret.raised = "none"
        /\ ret.v1_L = Zero
        /\ ret.v1_fmt = Literal(0, "L")
        /\ ret.diluent_L = Called_v2_L
        /\ \E t \in BOOLEAN : ret.diluent_fmt = format_volume(Called_v2_L, t)

\* 0 mM stock, 2 uM target, 250 mL: nothing of the stock, 250 mL of diluent
C12_Witness ==
    /\ CalcReturned
    /\ call.c1 = Zero /\ call.c1_unit = "mM"
    /\ call.c2 = Int2Num(2) /\ call.c2_unit = "uM"
    /\ call.v2 = Int2Num(250) /\ call.v2_unit = "mL"
    /\ ret.v1_L = Zero
    /\ ret.diluent_L = Dec(25, -2)
    /\ ret.diluent_fmt = [neg |-> FALSE, num |-> Int2Num(250), decimals |-> 3,
                          unit |-> "mL"]

\* ---- claims about calculate_serial_dilution ---------------------------------
SerialReturned ==
    ret # NoCall /\ call.fn = "calculate_serial_dilution"

\* C13 as stated: for every dilution_factor > 1, every initial concentration
\* and every num_dilutions >= 0 the series has num_dilutions + 1 entries and
\* its raw concentrations are strictly decreasing.
C13_SeriesStrictlyDecreasing ==
    (SerialReturned /\ RGt(call.dilution_factor, Int2Num(1))
        /\ call.num_dilutions >= 0) =>
        /\ ret.raised = "none"
        /\ Len(ret.results) = call.num_dilutions + 1
        /\ \A k \in 1..(Len(ret.results) - 1) :
             RLt(ret.results[k + 1].conc, ret.results[k].conc)

\* C13, amended: for every dilution_factor > 1, every initial concentration
\* > 0 and every num_dilutions >= 0 the series has num_dilutions + 1 entries
\* and its raw concentrations are strictly decreasing.
C13_PositiveSeriesStrictlyDecreasing ==
    (SerialReturned /\ RGt(call.dilution_factor, Int2Num(1))
        /\ call.num_dilutions >= 0 /\ Positive(call.initial_conc)) =>
        /\ ret.raised = "none"
        /\ Len(ret.results) = call.num_dilutions + 1
        /\ \A k \in 1..(Len(ret.results) - 1) :
             RLt(ret.results[k + 1].conc, ret.results[k].conc)

\* 5 diluted three times by 3: 5, 5/3, 5/9, 5/27
C13_Witness ==
    /\ SerialReturned
    /\ call.initial_conc = Int2Num(5) /\ call.dilution_factor = Int2Num(3)
    /\ call.num_dilutions = 3
    /\ ret.raised = "none"
    /\ Len(ret.results) = 4
    /\ ret.results[4].conc = Q(5, 27, 0)

\* C14: in the series returned, entry i carries the index i, entry 0 the
\* initial concentration, every later raw concentration is the one before it
\* divided by dilution_factor, in the caller's unit; the formatted string is
\* format_concentration of the raw concentration converted to molar.
C14_SeriesEntries ==
    (SerialReturned /\ ret.raised = "none") =>
        /\ \A k \in 1..Len(ret.results) : ret.results[k].i = k - 1
        /\ Len(ret.results) >= 1 => ret.results[1].conc = call.initial_conc
        /\ \A k \in 1..(Len(ret.results) - 1) :
             ret.results[k + 1].conc =
                 RDiv(ret.results[k].conc, call.dilution_factor)
        /\ \A k \in 1..Len(ret.results) :
             \E t \in BOOLEAN :
                ret.results[k].fmt =
                    format_concentration(
                        RMul(ret.results[k].conc,
                             DictGet(CONC_TO_MOLAR, call.conc_unit, Int2Num(1))), t)

\* 1000 mM diluted three times by 10: (0, 1000), (1, 100), (2, 10), (3, 1),
\* shown as "1.000 M" ... "1.000 mM"
C14_Witness ==
    /\ SerialReturned
    /\ call.initial_conc = Int2Num(1000) /\ call.dilution_factor = Int2Num(10)
    /\ call.num_dilutions = 3 /\ call.conc_unit = "mM"
    /\ ret.raised = "none"
    /\ [k \in 1..4 |-> ret.results[k].conc] =
           <<Int2Num(1000), Int2Num(100), Int2Num(10), Int2Num(1)>>
    /\ [k \in 1..4 |-> ret.results[k].i] = <<0, 1, 2, 3>>
    /\ ret.results[1].fmt = [neg |-> FALSE, num |-> Int2Num(1), decimals |-> 3,
                             unit |-> "M"]
    /\ ret.results[4].fmt = [neg |-> FALSE, num |-> Int2Num(1), decimals |-> 3,
                             unit |-> "mM"]

\* ---- claims about the format functions ---------------------------------------
FormatReturned ==
    ret # NoCall /\ call.fn \in {"format_mass", "format_volume",
                                 "format_concentration"}

\* the ladder of a dimension, largest unit first: the unit and its size in
\* base units
Ladder(fn) ==
    IF fn = "format_mass"
    THEN <<[unit |-> "kg", size |-> Int2Num(1000)], [unit |-> "g", size |-> Int2Num(1)],
           [unit |-> "mg", size |-> Dec(1, -3)], [unit |-> "ug", size |-> Dec(1, -6)]>>
    ELSE IF fn = "format_volume"
    THEN <<[unit |-> "L", size |-> Int2Num(1)], [unit |-> "mL", size |-> Dec(1, -3)],
           [unit |-> "uL", size |-> Dec(1, -6)]>>
    ELSE <<[unit |-> "M", size |-> Int2Num(1)], [unit |-> "mM", size |-> Dec(1, -3)],
           [unit |-> "uM", size |-> Dec(1, -6)], [unit |-> "nM", size |-> Dec(1, -9)]>>

LargestUnit(fn) == Ladder(fn)[1].unit
SmallestUnit(fn) == Ladder(fn)[Len(Ladder(fn))].unit

\* the rung of the ladder the string was written in
Rung(fn, unit) == CHOOSE k \in 1..Len(Ladder(fn)) : Ladder(fn)[k].unit = unit

\* the base value expressed in the unit of the string
InShownUnit == RDiv(call.x, Ladder(call.fn)[Rung(call.fn, ret.fmt.unit)].size)

\* C15 as stated: for every base value > 0 the displayed number is in
\* [1, 1000), except when the smallest-unit branch is selected.
C15_DisplayedNumberInLadderRange ==
    (FormatReturned /\ Positive(call.x)
        /\ ret.fmt.unit # SmallestUnit(call.fn)) =>
        RGe(ret.fmt.num, Int2Num(1)) /\ RLt(ret.fmt.num, Int2Num(1000))

\* C15, amended: for every base value > 0, outside the smallest-unit branch
\* the value in the selected unit and the displayed number are >= 1; outside
\* the largest-unit branch as well, the value in the selected unit is < 1000
\* and the displayed number, rounded to 3 decimals, is <= 1000.
C15_DisplayedNumberBounds ==
    (FormatReturned /\ Positive(call.x)
        /\ ret.fmt.unit # SmallestUnit(call.fn)) =>
        /\ RGe(InShownUnit, Int2Num(1))
        /\ RGe(ret.fmt.num, Int2Num(1))
        /\ ret.fmt.unit # LargestUnit(call.fn) =>
             /\ RLt(InShownUnit, Int2Num(1000))
             /\ RLe(ret.fmt.num, Int2Num(1000))

\* 999.9996 g is shown in grams as "1000.000 g"
C15_Witness ==
    /\ FormatReturned
    /\ call.fn = "format_mass" /\ call.x = Dec(9999996, -4)
    /\ ret.fmt = [neg |-> FALSE, num |-> Int2Num(1000), decimals |-> 3,
                  unit |-> "g"]

\* the rungs whose unit is not larger than the value
Qualifying(fn, x) == {k \in 1..Len(Ladder(fn)) : RGe(x, Ladder(fn)[k].size)}

\* C16: each format function writes the value in the largest unit of its
\* ladder in which the value is >= 1, and in the smallest unit when there is
\* none (so an exact 0 is written in the smallest unit), with 3 decimals.
C16_LargestQualifyingUnit ==
    FormatReturned =>
        LET L == Ladder(call.fn)
            q == Qualifying(call.fn, call.x)
            k == IF q = {} THEN Len(L)
                 ELSE CHOOSE i \in q : \A j \in q : i <= j
        IN  /\ ret.raised = "none"
            /\ ret.fmt.unit = L[k].unit
            /\ ret.fmt.decimals = 3
            /\ IsDecimal(ret.fmt.num, 3)
            /\ RLe(RAbs(RSub(ret.fmt.num, RAbs(RDiv(call.x, L[k].size)))),
                   Dec(5, -4))
            /\ ret.fmt.neg = (call.x.n < 0)

\* 0 liters is written "0.000 uL"
C16_Witness ==
    /\ FormatReturned
    /\ call.fn = "format_volume" /\ call.x = Zero
    /\ ret.fmt = [neg |-> FALSE, num |-> Zero, decimals |-> 3, unit |-> "uL"]

\* ---- claims about calculate_mass, calculate_molarity, percent solution -------
MassReturned == ret # NoCall /\ call.fn = "calculate_mass"
MolarityReturned == ret # NoCall /\ call.fn = "calculate_molarity"
PercentReturned == ret # NoCall /\ call.fn = "calculate_percent_solution"
PurityFraction == RDiv(call.purity, Int2Num(100))
\* the arguments in base units, by the conversion tables
ArgVolume_L == RMul(call.volume, VOLUME_TO_LITERS[call.volume_unit])
ArgMass_g == RMul(call.mass, MASS_TO_GRAMS[call.mass_unit])

\* C17: for purity # 0 and convertible units, calculate_mass returns
\* mass_g == molarity_M * volume_L * mw / (purity / 100), that is
\* mass_g * (purity / 100) == molarity_M * volume_L * mw, and the
\* format_mass string of mass_g.
C17_MassFormula ==
    (MassReturned /\ call.purity # Zero
        /\ call.conc_unit \in DOMAIN CONC_TO_MOLAR) =>
        /\ ret.raised = "none"
        /\ RMul(ret.value, PurityFraction) =
               RMul(RMul(RMul(call.molarity, CONC_TO_MOLAR[call.conc_unit]),
                         ArgVolume_L),
                    call.mw)
        /\ \E t \in BOOLEAN : ret.fmt = format_mass(ret.value, t)

\* 1 M in 1 L, mw 58.44, purity 100: 58.44 g, "58.440 g"
C17_Witness ==
    /\ MassReturned
    /\ call.molarity = Int2Num(1) /\ call.conc_unit = "M"
    /\ call.volume = Int2Num(1) /\ call.volume_unit = "L"
    /\ call.mw = Dec(5844, -2) /\ call.purity = Int2Num(100)
    /\ ret.value = Dec(5844, -2)
    /\ ret.fmt = [neg |-> FALSE, num |-> Dec(5844, -2), decimals |-> 3,
                  unit |-> "g"]

\* C18: calculate_molarity never divides by zero: with a volume of 0 liters
\* or mw == 0 it returns (0, "0 M") for every mass and purity; otherwise it
\* returns (mass_g / (volume_L * mw)) * (purity / 100), that is
\* molarity * volume_L * mw == mass_g * (purity / 100).
C18_MolarityFormula ==
    MolarityReturned =>
        /\ ret.raised = "none"
        /\ IF ArgVolume_L = Zero \/ call.mw = Zero
           THEN ret.value = Zero /\ ret.fmt = Literal(0, "M")
           ELSE /\ RMul(RMul(ret.value, ArgVolume_L), call.mw) =
                       RMul(ArgMass_g, PurityFraction)
                /\ \E t \in BOOLEAN : ret.fmt = format_concentration(ret.value, t)

\* 58.44 g in 1 L with mw 0: (0, "0 M")
C18_Witness ==
    /\ MolarityReturned
    /\ call.mass = Dec(5844, -2) /\ call.mass_unit = "g"
    /\ call.volume = Int2Num(1) /\ call.volume_unit = "L"
    /\ call.mw = Zero /\ call.purity = Int2Num(100)
    /\ ret = [raised |-> "none", value |-> Zero, fmt |-> Literal(0, "M")]

\* C19: a purity of exactly 0 given to calculate_mass is not guarded: the
\* call fails with a divide-by-zero error, for every molarity, volume and mw.
C19_ZeroPurityRaises ==
    (MassReturned /\ call.purity = Zero) => ret.raised = "ZeroDivisionError"

\* 1 M in 1 L, mw 58.44, purity 0
C19_Witness ==
    /\ MassReturned
    /\ call.molarity = Int2Num(1) /\ call.conc_unit = "M"
    /\ call.volume = Int2Num(1) /\ call.volume_unit = "L"
    /\ call.mw = Dec(5844, -2) /\ call.purity = Zero
    /\ ret.raised = "ZeroDivisionError"

\* C20: calculate_percent_solution returns 0 when the volume is 0 and
\* otherwise (mass in grams / volume in milliliters) * 100, that is
\* percent * volume_mL == mass_g * 100, for every mass unit and volume unit.
C20_PercentFormula ==
    PercentReturned =>
        LET volume_mL == RMul(ArgVolume_L, Int2Num(1000))
        IN  /\ ret.raised = "none"
            /\ IF volume_mL = Zero THEN ret.value = Zero
               ELSE RMul(ret.value, volume_mL) = RMul(ArgMass_g, Int2Num(100))

\* 10 mg in 250 uL: 0.01 g in 0.25 mL, 4 %
C20_Witness ==
    /\ PercentReturned
    /\ call.mass = Int2Num(10) /\ call.mass_unit = "mg"
    /\ call.volume = Int2Num(250) /\ call.volume_unit = "uL"
    /\ ret.value = Int2Num(4)

\* ---- claims about scaling there and back --------------------------------------
ScaledBack == pc = "back" /\ raised = "none"

\* C22 as stated: for every S whose amounts have at most 4 decimal places and
\* all volumes a > 0 and b > 0, scale_recipe(scale_recipe(S, b, a), a, b) == S.
C22_ScalingReversible ==
    (ScaledBack /\ Positive(old_total_volume) /\ Positive(new_total_volume)
        /\ \A i \in 1..Len(InputValue) : IsDecimal(InputValue[i].amount, 4)) =>
        ResultValue = InputValue

\* C22, amended: under the same conditions scaling from a to b and back to a
\* restores every field but the amount, and every amount up to the two
\* roundings: |back[i].amount - S[i].amount| <= 0.00005 * (1 + a / b).
C22_ScalingReversibleUpToRounding ==
    (ScaledBack /\ Positive(old_total_volume) /\ Positive(new_total_volume)
        /\ \A i \in 1..Len(InputValue) : IsDecimal(InputValue[i].amount, 4)) =>
        /\ Len(ResultValue) = Len(InputValue)
        /\ \A i \in 1..Len(InputValue) :
             /\ [ResultValue[i] EXCEPT !.amount = Zero] =
                    [InputValue[i] EXCEPT !.amount = Zero]
             /\ RLe(RAbs(RSub(ResultValue[i].amount, InputValue[i].amount)),
                    RMul(HalfUnit,
                         RAdd(Int2Num(1),
                              RDiv(old_total_volume, new_total_volume))))

\* an amount of 1 scaled from 3 to 1 (0.3333) and back to 3: 0.9999
C22_Witness ==
    /\ ScaledBack
    /\ old_total_volume = Int2Num(3) /\ new_total_volume = Int2Num(1)
    /\ Len(InputValue) = 2
    /\ InputValue[1].amount = Int2Num(1)
    /\ ResultValue[1].amount = Dec(9999, -4)

\* ---- claims about the formatted strings of the results ------------------------
StockVolumeReturned == ret # NoCall /\ call.fn = "calculate_stock_volume"
ZeroDenominator ==
    \/ /\ call.fn = "calculate_molarity"
       /\ ArgVolume_L = Zero \/ call.mw = Zero
    \/ /\ call.fn = "calculate_stock_volume"
       /\ Called_c1_M = Zero

\* C23 as stated: in every result of calculate_mass, calculate_molarity and
\* calculate_stock_volume each formatted string is the output of the
\* dimension's format function applied to the numeric value returned next to
\* it, for every input including the zero-denominator cases.
C23_StringsAreFormattedValues ==
    /\ (MassReturned /\ ret.raised = "none") =>
           \E t \in BOOLEAN : ret.fmt = format_mass(ret.value, t)
    /\ (MolarityReturned /\ ret.raised = "none") =>
           \E t \in BOOLEAN : ret.fmt = format_concentration(ret.value, t)
    /\ (StockVolumeReturned /\ ret.raised = "none") =>
           /\ \E t \in BOOLEAN : ret.v1_fmt = format_volume(ret.v1_L, t)
           /\ \E t \in BOOLEAN : ret.diluent_fmt = format_volume(ret.diluent_L, t)

\* C23, amended: the strings are the format functions' outputs except in the
\* zero-denominator cases, where calculate_molarity returns the literal "0 M"
\* and calculate_stock_volume the literal "0 L" for the stock volume (the
\* diluent's string is format_volume of the diluent in every case).
C23_StringsAreFormattedValuesOrZeroLiterals ==
    /\ (MassReturned /\ ret.raised = "none") =>
           \E t \in BOOLEAN : ret.fmt = format_mass(ret.value, t)
    /\ (MolarityReturned /\ ret.raised = "none") =>
           IF ZeroDenominator
           THEN ret.value = Zero /\ ret.fmt = Literal(0, "M")
           ELSE \E t \in BOOLEAN : ret.fmt = format_concentration(ret.value, t)
    /\ (StockVolumeReturned /\ ret.raised = "none") =>
           /\ IF ZeroDenominator
              THEN ret.v1_L = Zero /\ ret.v1_fmt = Literal(0, "L")
              ELSE \E t \in BOOLEAN : ret.v1_fmt = format_volume(ret.v1_L, t)
           /\ \E t \in BOOLEAN : ret.diluent_fmt = format_volume(ret.diluent_L, t)

\* calculate_molarity called with a volume of 0 has returned "0 M", which is
\* not what format_concentration makes of 0
C23_Witness ==
    /\ MolarityReturned /\ ret.raised = "none"
    /\ ArgVolume_L = Zero
    /\ ret.fmt = Literal(0, "M")
    /\ \A t \in BOOLEAN : ret.fmt # format_concentration(ret.value, t)

\* ---- claims about calculate_mass followed by calculate_molarity --------------
RoundTripReturned == ret.fn = "calculate_molarity" /\ ret.raised = "none"
RoundTripCovered ==
    /\ RMul(call.volume, VOLUME_TO_LITERS[call.volume_unit]) # Zero
    /\ call.mw # Zero
    /\ call.purity # Zero

\* |x - y| <= |y| / 2^bits, for two floats
FloatWithin(x, y, bits) ==
    IF y.m = <<>> THEN x.m = <<>>
    ELSE /\ x.m # <<>>
         /\ x.neg = y.neg
         /\ LET low == MinOf(x.e, y.e)
                X == BShl(x.m, x.e - low)
                Y == BShl(y.m, y.e - low)
                gap == IF BCmp(X, Y) >= 0 THEN BSub(X, Y) ELSE BSub(Y, X)
            IN  BCmp(BShl(gap, bits), Y) <= 0

\* C24 as stated: for every molarity M (in molar), volume V # 0, mw # 0 and
\* purity # 0, feeding the grams returned by calculate_mass(M, V, mw, purity)
\* into calculate_molarity with the same V, mw and purity returns M.
C24_RoundTripReturnsMolarity ==
    (RoundTripReturned /\ RoundTripCovered) =>
        ret.value = Float(call.molarity)

\* C24, amended: under the same conditions the molarity returned is M up to
\* the roundings of the six float operations on the way, a relative error
\* of at most 2^-50 (0 is returned for M = 0).
C24_RoundTripReturnsMolarityUpToRounding ==
    (RoundTripReturned /\ RoundTripCovered) =>
        FloatWithin(ret.value, Float(call.molarity), 50)

\* 0.5 M in 1 mL at mw 40 and purity 80: 0.024999999999999998 g, which
\* calculate_molarity turns into 0.49999999999999994 M
C24_Witness ==
    /\ RoundTripReturned /\ RoundTripCovered
    /\ call.molarity = Dec(5, -1) /\ call.volume = Int2Num(1)
    /\ call.volume_unit = "mL" /\ call.mw = Int2Num(40)
    /\ call.purity = Int2Num(80)
    /\ ret.value # Float(call.molarity)
    /\ FloatWithin(ret.value, Float(call.molarity), 52)

\* ---- claims about the Final Volume input and the auto-scale block -------------

Recipes(file) == {file.data.recipes[i] : i \in 1..Len(file.data.recipes)}

\* C25: after any sequence of successful save_user_recipe_to_file calls the
\* saved recipe list holds at most one recipe per name, the recipe stored
\* under a name is the one from the most recent save with that name, and the
\* recipes saved under other names are left unchanged.  Step by step: every
\* successful save leaves a list with one recipe per name, in which the saved
\* name holds the steps just saved and every other name what it held before.
C25_OneRecipePerNameLatestWins ==
    [][ret'.success =>
          LET saved == saved_recipes'.data.recipes
              earlier == load_user_recipes(saved_recipes)
          IN  /\ \A i, j \in 1..Len(saved) :
                     saved[i].name = saved[j].name => i = j
              /\ [name |-> call'.name,
                  steps |-> normalized_steps(call'.steps, call'.base_vol_L)]
                     \in Recipes(saved_recipes')
              /\ \A r \in Recipes(saved_recipes') :
                     r.name # call'.name =>
                         \E i \in 1..Len(earlier) : earlier[i] = r
              /\ \A i \in 1..Len(earlier) :
                     earlier[i].name # call'.name =>
                         earlier[i] \in Recipes(saved_recipes')]_vars

\* "My Protocol" was saved over the recipe of that name found at the start,
\* and "Wash Buffer", saved before, is still what it was
C25_Witness ==
    /\ call.fn = "save_user_recipe_to_file" /\ ret.success
    /\ call.name = "My Protocol" /\ call.steps # <<>>
    /\ saved_recipes.kind = "json"
    /\ Len(saved_recipes.data.recipes) = 2
    /\ saved_recipes.data.recipes[1] = EarlierRecipes[2]
    /\ saved_recipes.data.recipes[2].name = "My Protocol"
    /\ saved_recipes.data.recipes[2] # EarlierRecipes[1]

====
